---- MODULE Spec2Model ----
(***************************************************************************)
(* Valuation engine of the housing-complex (団地) negotiation app.          *)
(*                                                                         *)
(* The pages of the app each derive, from stored estate_entries or         *)
(* estate_stocks rows, a comparable unit price, a target price, a raise    *)
(* amount, three cost deductions and a buy-target price.  The formulas     *)
(* are copied from page to page; every copy is modelled separately, under  *)
(* the name it has in the source.                                          *)
(*                                                                         *)
(* Numbers.  Prices are integers (yen).  Areas carry two decimals and are  *)
(* held in hundredths of a square metre; coefficients carry two decimals   *)
(* and are held in hundredths.  All arithmetic is exact rational           *)
(* arithmetic on these fixed-point values; Math.round is rounding half     *)
(* up (towards +infinity) and Math.floor is the floor.  Products are       *)
(* divided limb by limb so that no intermediate value leaves 32 bits.      *)
(***************************************************************************)
EXTENDS Integers, Sequences, FiniteSets, TLC

(***************************************************************************)
(* JavaScript values of a nullable numeric column.                         *)
(***************************************************************************)
Null == [type |-> "null", finite |-> FALSE, v |-> 0]
NaN == [type |-> "number", finite |-> FALSE, v |-> 0]
Num(n) == [type |-> "number", finite |-> TRUE, v |-> n]

\* fixed-point scales: area 68.32 is 6832, coefficient 1.05 is 105
AreaScale == 100
CoefScale == 100

\* floor and remainder of the exact quotient (a * b) / q, q > 0
MulDivFloor(a, b, q) ==
  (q * (a \div q) * (b \div q)) + ((a \div q) * (b % q)) + ((a % q) * (b \div q)) + (((a % q) * (b % q)) \div q)
MulDivRem(a, b, q) == ((a % q) * (b % q)) % q

\* Math.floor(a * b / q) and Math.round(a * b / q) of the exact quotient, q # 0
FloorMulDiv(a, b, q) == IF q > 0 THEN MulDivFloor(a, b, q) ELSE MulDivFloor(-a, b, -q)
RoundMulDiv(a, b, q) ==
  IF q > 0 THEN MulDivFloor(a, b, q) + (IF 2 * MulDivRem(a, b, q) >= q THEN 1 ELSE 0)
  ELSE MulDivFloor(-a, b, -q) + (IF 2 * MulDivRem(-a, b, -q) >= -q THEN 1 ELSE 0)
Abs(x) == IF x < 0 THEN -x ELSE x

\* a || b on numbers that are never NaN
OrElse(a, b) == IF a = 0 THEN b ELSE a

(***************************************************************************)
(* safeNum: the copies with a default argument (historical list, sample    *)
(* list, detail page) and the copies without (stock list, per-complex      *)
(* list).                                                                  *)
(***************************************************************************)
safeNumDNullOnly(n, d) == IF n.type = "null" THEN d ELSE n.v
safeNumD(n, d) == IF n.type = "number" /\ n.finite THEN n.v ELSE d
safeNum(n) == IF n.type = "number" /\ n.finite THEN n.v ELSE 0

(***************************************************************************)
(* The shared expressions, identical character for character at every      *)
(* call site.  area is in hundredths of a square metre.                    *)
(***************************************************************************)
\* area > 0 ? Math.round(price / area) : 0
unitPriceAnyNonZero(price, area) == IF area # 0 THEN RoundMulDiv(price, AreaScale, area) ELSE 0
unitPrice(price, area) == IF area > 0 THEN RoundMulDiv(price, AreaScale, area) ELSE 0

\* Math.floor(x / 10000) * 10000 of the rational x = a * b / q, q > 0
floorToTenThousandNearest(a, b, q) == RoundMulDiv(a, b, q * 10000) * 10000
floorToTenThousand(a, b, q) == FloorMulDiv(a, b, q * 10000) * 10000
\* raiseFloat = targetClose / 1.21, then Math.floor(raiseFloat / 10000) * 10000
raiseOf(targetClose) == floorToTenThousand(targetClose, 100, 121)

\* raise - moveCost - brokerage - other
buyTargetClamped(raise, mc, brokerage, other) ==
  IF raise - mc - brokerage - other < 0 THEN 0 ELSE raise - mc - brokerage - other
buyTargetOf(raise, mc, brokerage, other) == raise - mc - brokerage - other

\* the three tiers of moveCost; (area - 60) * 400 is (a - 6000) * 4 for a in hundredths
moveCostLow(area) == RoundMulDiv(area, 132000, AreaScale)
moveCostHigh(area) == RoundMulDiv(area, 123000, AreaScale)
moveCostMiddleSlope450(area) == RoundMulDiv(area, 132000 - ((area - 60 * AreaScale) * 9) \div 2, AreaScale)
moveCostMiddle(area) == RoundMulDiv(area, 132000 - (area - 60 * AreaScale) * 4, AreaScale)
moveCostTwoTiers(area) ==
  IF area >= 80 * AreaScale THEN moveCostHigh(area) ELSE moveCostLow(area)
moveCost(area) ==
  IF area < 60 * AreaScale THEN moveCostLow(area)
  ELSE IF area >= 80 * AreaScale THEN moveCostHigh(area)
  ELSE moveCostMiddle(area)

\* raise < 10_000_000 ? 550_000 : Math.round(raise * 0.055)
brokerageAlwaysPercent(raise) == RoundMulDiv(raise, 55, 1000)
brokerageLateThreshold(raise) == IF raise < 11000000 THEN 550000 ELSE RoundMulDiv(raise, 55, 1000)
brokerageFee(raise) == IF raise < 10000000 THEN 550000 ELSE RoundMulDiv(raise, 55, 1000)

\* Math.round(raise * 0.075)
otherCost(raise) == RoundMulDiv(raise, 75, 1000)

(***************************************************************************)
(* Dates.  A date column holds null, an unparseable string, or a day       *)
(* (counted in whole days; +date is day * 86400000).                       *)
(***************************************************************************)
NoDate == [type |-> "null", day |-> 0]
BadDate == [type |-> "invalid", day |-> 0]
Day(d) == [type |-> "date", day |-> d]

\* parseDate: null for a missing or unparseable string
parseDate(s) == IF s.type = "date" THEN s ELSE NoDate
\* diffDays(a, b) of two parsed dates: Math.round(|a - b| / 86400000)
diffDaysMissingAsEpoch(a, b) ==
  Abs((IF a.type = "date" THEN a.day ELSE 0) - (IF b.type = "date" THEN b.day ELSE 0))
diffDays(a, b) == IF a.type # "date" \/ b.type # "date" THEN 0 ELSE Abs(a.day - b.day)

(***************************************************************************)
(* Historical list (tab-list): rows.map in TabListPage.run, and judge.     *)
(* moveCost, brokerage and other are locals of the callback; they are      *)
(* kept in the record so that properties can name them.                    *)
(***************************************************************************)
TabListItem(r) ==
  LET area == safeNumD(r.area_sqm, 0)
      pastMax == safeNumD(r.max_price, 0)
      coef == safeNumD(r.coef_total, 1 * CoefScale)
      pastMin == safeNumD(r.past_min, 0)
      unit == unitPrice(pastMax, area)
      targetClose == RoundMulDiv(unit, area * coef, AreaScale * CoefScale)
      raise == raiseOf(targetClose)
      mc == moveCost(area)
      brokerage == brokerageFee(raise)
      other == otherCost(raise)
      buyTarget == buyTargetOf(raise, mc, brokerage, other)
      pastMiniDays == diffDays(parseDate(r.reins_registered_date), parseDate(r.contract_date))
  IN [area |-> area, listPrice |-> raise, unitPrice |-> unit, coefTotal |-> coef,
      targetClose |-> targetClose, raise |-> raise, buyTarget |-> buyTarget,
      pastMin |-> pastMin, pastMax |-> pastMax, pastMiniDays |-> pastMiniDays,
      moveCost |-> mc, brokerage |-> brokerage, other |-> other]

thGap == 300000
thDays == 30
thCoef == 105

judgeFocusNeedsHigh(p) ==
  LET diff == p.pastMin - p.buyTarget
      near == Abs(diff) <= thGap
      fast == p.pastMiniDays > 0 /\ p.pastMiniDays <= thDays
      high == p.targetClose > p.pastMax /\ p.coefTotal >= thCoef
  IN [diff |-> diff, near |-> near, fast |-> fast, high |-> high, focus |-> near /\ fast /\ high]
judgeOneSided(p) ==
  LET diff == p.pastMin - p.buyTarget
      near == diff >= 0 /\ diff <= thGap
      fast == p.pastMiniDays > 0 /\ p.pastMiniDays <= thDays
      high == p.targetClose > p.pastMax /\ p.coefTotal >= thCoef
  IN [diff |-> diff, near |-> near, fast |-> fast, high |-> high, focus |-> near /\ fast]
judge(p) ==
  LET diff == p.pastMin - p.buyTarget
      near == Abs(diff) <= thGap
      fast == p.pastMiniDays > 0 /\ p.pastMiniDays <= thDays
      high == p.targetClose > p.pastMax /\ p.coefTotal >= thCoef
  IN [diff |-> diff, near |-> near, fast |-> fast, high |-> high, focus |-> near /\ fast]

(***************************************************************************)
(* Sample list (sample/pattern_2_list/tab-list): the same map and judge.   *)
(***************************************************************************)
SampleListItem(r) ==
  LET area == safeNumD(r.area_sqm, 0)
      pastMax == safeNumD(r.max_price, 0)
      coef == safeNumD(r.coef_total, 1 * CoefScale)
      pastMin == safeNumD(r.past_min, 0)
      unit == unitPrice(pastMax, area)
      targetClose == RoundMulDiv(unit, area * coef, AreaScale * CoefScale)
      raise == raiseOf(targetClose)
      mc == moveCost(area)
      brokerage == brokerageFee(raise)
      other == otherCost(raise)
      buyTarget == buyTargetOf(raise, mc, brokerage, other)
      pastMiniDays == diffDays(parseDate(r.reins_registered_date), parseDate(r.contract_date))
  IN [area |-> area, listPrice |-> raise, unitPrice |-> unit, coefTotal |-> coef,
      targetClose |-> targetClose, raise |-> raise, buyTarget |-> buyTarget,
      pastMin |-> pastMin, pastMax |-> pastMax, pastMiniDays |-> pastMiniDays,
      moveCost |-> mc, brokerage |-> brokerage, other |-> other]

sampleJudge(p) ==
  LET diff == p.pastMin - p.buyTarget
      near == Abs(diff) <= thGap
      fast == p.pastMiniDays > 0 /\ p.pastMiniDays <= thDays
      high == p.targetClose > p.pastMax /\ p.coefTotal >= thCoef
  IN [diff |-> diff, near |-> near, fast |-> fast, high |-> high, focus |-> near /\ fast]

(***************************************************************************)
(* Detail page: the computed memo of DetailPage.                           *)
(***************************************************************************)
DetailComputed(row) ==
  LET area == safeNumD(row.area_sqm, 0)
      pastMax == safeNumD(row.max_price, 0)
      unit == unitPrice(pastMax, area)
      coef == safeNumD(row.coef_total, 1 * CoefScale)
      targetClose == RoundMulDiv(unit, area * coef, AreaScale * CoefScale)
      raise == raiseOf(targetClose)
      pastMin == safeNumD(row.past_min, 0)
      interior == safeNumD(row.interior_level_coef, 0)
      yearCoef == safeNumD(row.contract_year_coef, 0)
      mc == moveCost(area)
      brokerage == brokerageFee(raise)
      other == otherCost(raise)
      buyTarget == buyTargetOf(raise, mc, brokerage, other)
  IN [area |-> area, unitPrice |-> unit, coefTotal |-> coef, targetClose |-> targetClose,
      raise |-> raise, pastMin |-> pastMin, interior |-> interior, yearCoef |-> yearCoef,
      coefSum |-> interior + yearCoef, buyTarget |-> buyTarget,
      moveCost |-> mc, brokerage |-> brokerage, other |-> other]

(***************************************************************************)
(* Floor-coefficient patterns (hundredths).  The four names stand for the  *)
(* keys of floorCoefs in the source; any other name has no entry.          *)
(***************************************************************************)
PatternNames == {"conservative", "balanced", "aggressive", "max-aggressive"}
floorCoefs ==
  [n \in PatternNames |->
     CASE n = "conservative" -> <<100, 98, 95, 90, 85>>
       [] n = "balanced" -> <<100, 99, 96, 92, 88>>
       [] n = "aggressive" -> <<100, 100, 99, 98, 97>>
       [] n = "max-aggressive" -> <<98, 99, 100, 103, 107>>]
DefaultCoefs == <<100, 100, 100, 100, 100>>

\* floorCoefs[pattern] ?? fallback, pattern being (floorPattern ?? '')
coefListOfFirstPattern(pattern) ==
  IF pattern \in PatternNames THEN floorCoefs[pattern] ELSE floorCoefs["conservative"]
coefListOf(pattern) == IF pattern \in PatternNames THEN floorCoefs[pattern] ELSE DefaultCoefs

(***************************************************************************)
(* Per-complex list (TabListClient.loadEntries): one card per contract     *)
(* kind, built from the first row of that kind, with one row per floor.    *)
(* targetClose, buyTarget and the three costs are locals of the floor      *)
(* callback, kept in the record so that properties can name them.          *)
(***************************************************************************)
\* base.coef_total ?? (safeNum(interior) + safeNum(year)), then safeNum(..) || 1
complexBaseCoef(base) ==
  LET picked == IF base.coef_total.type = "null"
                THEN Num(safeNum(base.interior_level_coef) + safeNum(base.contract_year_coef))
                ELSE base.coef_total
  IN OrElse(safeNum(picked), 1 * CoefScale)

complexFloorRow(unit, baseCoef, area, c, idx) ==
  LET predictedUnit == RoundMulDiv(unit, c, CoefScale)
      targetUnit == RoundMulDiv(unit, baseCoef * c, CoefScale * CoefScale)
      targetClose == RoundMulDiv(targetUnit, area, AreaScale)
      raise == raiseOf(targetClose)
      mc == moveCost(area)
      brokerage == brokerageFee(raise)
      other == otherCost(raise)
      buyTarget == buyTargetOf(raise, mc, brokerage, other)
      buyTargetUnit == unitPrice(buyTarget, area)
  IN [floor |-> idx, floorCoef |-> c, predictedUnit |-> predictedUnit, targetUnit |-> targetUnit,
      raise |-> raise, buyTargetUnit |-> buyTargetUnit,
      targetClose |-> targetClose, buyTarget |-> buyTarget,
      moveCost |-> mc, brokerage |-> brokerage, other |-> other]

complexCard(base, pattern) ==
  LET kind == base.contract_kind
      area == safeNum(base.area_sqm)
      price == IF kind = "MAX" THEN safeNum(base.max_price) ELSE safeNum(base.past_min)
      unit == unitPrice(price, area)
      baseCoef == complexBaseCoef(base)
      coefArr == coefListOf(pattern)
  IN [kind |-> kind,
      summary |-> [unit |-> unit, price |-> price, area |-> area, coefTotal |-> baseCoef,
                   days |-> diffDays(parseDate(base.reins_registered_date), parseDate(base.contract_date))],
      floors |-> [idx \in 1..Len(coefArr) |-> complexFloorRow(unit, baseCoef, area, coefArr[idx], idx)]]

(***************************************************************************)
(* Stock list (TabStockListPage.loadStocks): stored value first, then the  *)
(* value recomputed from the upstream displayed values.                    *)
(***************************************************************************)
\* diffDays(a) of the stock list: the days between a and new Date(); now is
\* the reading of the clock, in whole days
stockDiffDaysIgnoringClock(a, now) ==
  LET da == parseDate(a)
  IN IF da.type # "date" THEN 0 ELSE da.day
stockDiffDays(a, now) ==
  LET da == parseDate(a)
  IN IF da.type # "date" THEN 0 ELSE Abs(now.day - da.day)

stockCardNoOverride(r, now) ==
  LET area == safeNum(r.area_sqm)
      listPrice == safeNum(r.list_price)
      baseUnit == safeNum(r.base_unit_price)
      coef == OrElse(safeNum(r.coef_total), 1 * CoefScale)
      floorCoef == OrElse(safeNum(r.floor_coef), 1 * CoefScale)
      unit == unitPrice(listPrice, area)
      targetUnit == RoundMulDiv(baseUnit, coef * floorCoef, CoefScale * CoefScale)
      targetPrice == RoundMulDiv(targetUnit, area, AreaScale)
      raise == raiseOf(targetPrice)
      mc == moveCost(area)
      brokerage == brokerageFee(raise)
      other == otherCost(raise)
      buyTarget == buyTargetOf(raise, mc, brokerage, other)
  IN [area |-> area, price |-> listPrice, unit |-> unit, coef |-> coef, floorCoef |-> floorCoef,
      baseUnit |-> baseUnit, targetUnit |-> targetUnit, targetPrice |-> targetPrice,
      buyTarget |-> buyTarget, raise |-> raise, days |-> stockDiffDays(r.registered_date, now),
      moveCost |-> mc, brokerage |-> brokerage, other |-> other]
stockCard(r, now) ==
  LET area == safeNum(r.area_sqm)
      listPrice == safeNum(r.list_price)
      unitStored == safeNum(r.target_unit_price)
      baseUnit == safeNum(r.base_unit_price)
      coef == OrElse(safeNum(r.coef_total), 1 * CoefScale)
      floorCoef == OrElse(safeNum(r.floor_coef), 1 * CoefScale)
      unit == unitPrice(listPrice, area)
      targetUnit == OrElse(unitStored, RoundMulDiv(baseUnit, coef * floorCoef, CoefScale * CoefScale))
      targetPriceStored == safeNum(r.target_close_price)
      targetPrice == OrElse(targetPriceStored, RoundMulDiv(targetUnit, area, AreaScale))
      raiseStored == safeNum(r.raise_price)
      raise == OrElse(raiseStored, raiseOf(targetPrice))
      buyStored == safeNum(r.buy_target_price)
      mc == moveCost(area)
      brokerage == brokerageFee(raise)
      other == otherCost(raise)
      buyTarget == OrElse(buyStored, buyTargetOf(raise, mc, brokerage, other))
  IN [area |-> area, price |-> listPrice, unit |-> unit, coef |-> coef, floorCoef |-> floorCoef,
      baseUnit |-> baseUnit, targetUnit |-> targetUnit, targetPrice |-> targetPrice,
      buyTarget |-> buyTarget, raise |-> raise, days |-> stockDiffDays(r.registered_date, now),
      moveCost |-> mc, brokerage |-> brokerage, other |-> other]

(***************************************************************************)
(* Stock edit page.  Form fields are strings: the empty string, the        *)
(* decimal text of a number, or a text that parseFloat does not read       *)
(* (the text "NaN").  toFixed(2) is exact on two-decimal coefficients.     *)
(***************************************************************************)
EmptyStr == [type |-> "string", empty |-> TRUE, finite |-> FALSE, v |-> 0]
NaNStr == [type |-> "string", empty |-> FALSE, finite |-> FALSE, v |-> 0]
StrOf(n) == [type |-> "string", empty |-> FALSE, finite |-> TRUE, v |-> n]

IsFiniteNumber(x) == x.type = "number" /\ x.finite
\* truthiness of number | null and of string
TruthyNum(x) == IsFiniteNumber(x) /\ x.v # 0
TruthyStr(s) == ~s.empty

toNumString(x) == IF IsFiniteNumber(x) THEN StrOf(x.v) ELSE EmptyStr
toFixedString(x, fallback) == IF IsFiniteNumber(x) THEN StrOf(x.v) ELSE fallback
\* Number.toString() of a number that is not null
numToString(x) == IF x.finite THEN StrOf(x.v) ELSE NaNStr

\* safeNum(v: string | number | null | undefined) of the stock edit page
editSafeNum(x) ==
  IF x.type = "number" THEN (IF x.finite THEN x.v ELSE 0)
  ELSE IF x.type = "string" /\ ~x.empty THEN (IF x.finite THEN x.v ELSE 0)
  ELSE 0

\* the date fields hold the stored date text ('' is NoDate)
initialForm ==
  [floor |-> EmptyStr, area |-> EmptyStr, registered |-> NoDate, contract |-> NoDate,
   maxUnit |-> EmptyStr, coefTotal |-> StrOf(1 * CoefScale)]

\* toDateValue: '' for null, the text (cut at 'T') otherwise
toDateValue(v) == v

\* setForm({...}) of the stock load effect
formOfStock(row) ==
  [floor |-> toNumString(row.floor),
   area |-> toNumString(row.area_sqm),
   registered |-> toDateValue(row.registered_date),
   contract |-> toDateValue(row.contract_date),
   maxUnit |-> toNumString(row.base_unit_price),
   coefTotal |-> toFixedString(row.coef_total, initialForm.coefTotal)]

\* list.map of loadEntries (MAX entries of the selected complex)
editEntryOf(r) ==
  [floor |-> r.floor,
   area |-> r.area_sqm,
   maxPrice |-> r.max_price,
   coefTotal |-> IF r.coef_total.type = "null"
                 THEN Num(editSafeNum(r.interior_level_coef) + editSafeNum(r.contract_year_coef))
                 ELSE r.coef_total]

\* selectedEntry.area && selectedEntry.maxPrice ? Math.round(maxPrice / area) : 0
editEntryUnit(e) ==
  IF TruthyNum(e.area) /\ TruthyNum(e.maxPrice) THEN RoundMulDiv(e.maxPrice.v, AreaScale, e.area.v) ELSE 0

\* setForm((prev) => ...) of the selectedEntry effect
formMergeEntry(prev, e) ==
  [floor |-> prev.floor,
   registered |-> prev.registered,
   contract |-> prev.contract,
   area |-> IF TruthyStr(prev.area) THEN prev.area
            ELSE IF e.area.type # "null" THEN numToString(e.area) ELSE EmptyStr,
   maxUnit |-> IF TruthyStr(prev.maxUnit) THEN prev.maxUnit
               ELSE IF editEntryUnit(e) # 0 THEN StrOf(editEntryUnit(e)) ELSE EmptyStr,
   coefTotal |-> IF TruthyStr(prev.coefTotal) THEN prev.coefTotal
                 ELSE IF e.coefTotal.type # "null" THEN numToString(e.coefTotal)
                 ELSE StrOf(1 * CoefScale)]

editBaseUnit(form) == editSafeNum(form.maxUnit)
editBaseCoef(form) == OrElse(editSafeNum(form.coefTotal), 1 * CoefScale)
editAreaNum(form) == editSafeNum(form.area)

editFloorRowOtherOnNet(baseUnit, baseCoef, areaNum, c, idx) ==
  LET targetUnit == RoundMulDiv(baseUnit, baseCoef * c, CoefScale * CoefScale)
      targetClose == RoundMulDiv(targetUnit, areaNum, AreaScale)
      raise == raiseOf(targetClose)
      mc == moveCost(areaNum)
      brokerage == brokerageFee(raise)
      other == otherCost(raise - brokerage)
      buyTarget == buyTargetOf(raise, mc, brokerage, other)
  IN [floor |-> idx, floorCoef |-> c, targetUnit |-> targetUnit, targetClose |-> targetClose,
      raise |-> raise, buyTarget |-> buyTarget,
      moveCost |-> mc, brokerage |-> brokerage, other |-> other]
editFloorRow(baseUnit, baseCoef, areaNum, c, idx) ==
  LET targetUnit == RoundMulDiv(baseUnit, baseCoef * c, CoefScale * CoefScale)
      targetClose == RoundMulDiv(targetUnit, areaNum, AreaScale)
      raise == raiseOf(targetClose)
      mc == moveCost(areaNum)
      brokerage == brokerageFee(raise)
      other == otherCost(raise)
      buyTarget == buyTargetOf(raise, mc, brokerage, other)
  IN [floor |-> idx, floorCoef |-> c, targetUnit |-> targetUnit, targetClose |-> targetClose,
      raise |-> raise, buyTarget |-> buyTarget,
      moveCost |-> mc, brokerage |-> brokerage, other |-> other]

\* the floors memo
editFloors(form, pattern) ==
  LET coefList == coefListOf(pattern)
  IN [idx \in 1..Len(coefList) |->
        editFloorRow(editBaseUnit(form), editBaseCoef(form), editAreaNum(form), coefList[idx], idx)]

\* Number.parseInt(s, 10) of the text of a number input: '' or an integer
parseIntOf(s) == IF s.empty \/ ~s.finite THEN NaN ELSE Num(s.v)
\* toInt and toNum: null for the empty text
toInt(s) == IF s.empty THEN Null ELSE parseIntOf(s)
toNum(s) == IF s.empty THEN Null ELSE IF s.finite THEN Num(s.v) ELSE NaN

selectedFloorNum(form) == IF parseIntOf(form.floor).finite THEN parseIntOf(form.floor) ELSE Null
\* floors.find((f) => f.floor === selectedFloorNum) ?? floors[0]
selectedFloorRowClamped(floors, num) ==
  IF num.type = "number" /\ num.v > Len(floors) THEN floors[Len(floors)]
  ELSE IF num.type = "number" /\ num.v \in DOMAIN floors THEN floors[num.v]
  ELSE floors[1]
selectedFloorRow(floors, num) ==
  IF num.type = "number" /\ num.v \in DOMAIN floors THEN floors[num.v] ELSE floors[1]

stockPayloadNoFloorCoef(row, form, target, baseUnit, baseCoef) ==
  [row EXCEPT !.floor = toInt(form.floor),
              !.area_sqm = toNum(form.area),
              !.registered_date = form.registered,
              !.contract_date = form.contract,
              !.list_price = Num(target.targetClose),
              !.base_unit_price = IF baseUnit = 0 THEN Null ELSE Num(baseUnit),
              !.coef_total = IF baseCoef = 0 THEN Null ELSE Num(baseCoef),
              !.floor_coef = Null,
              !.target_unit_price = Num(target.targetUnit),
              !.target_close_price = Num(target.targetClose),
              !.raise_price = Num(target.raise),
              !.buy_target_price = Num(target.buyTarget)]
\* the payload of handleSubmit, written over the stored row
stockPayload(row, form, target, baseUnit, baseCoef) ==
  [row EXCEPT !.floor = toInt(form.floor),
              !.area_sqm = toNum(form.area),
              !.registered_date = form.registered,
              !.contract_date = form.contract,
              !.list_price = Num(target.targetClose),
              !.base_unit_price = IF baseUnit = 0 THEN Null ELSE Num(baseUnit),
              !.coef_total = IF baseCoef = 0 THEN Null ELSE Num(baseCoef),
              !.floor_coef = Num(target.floorCoef),
              !.target_unit_price = Num(target.targetUnit),
              !.target_close_price = Num(target.targetClose),
              !.raise_price = Num(target.raise),
              !.buy_target_price = Num(target.buyTarget)]

(***************************************************************************)
(* MAX-entry edit page (tab-regist/[entryId]/edit): the MAX form, the      *)
(* coefTotal sync effect and the three memos of the preview.               *)
(***************************************************************************)
initialMax ==
  [floor |-> EmptyStr, area |-> EmptyStr, price |-> EmptyStr,
   interior |-> StrOf(100), year |-> StrOf(0), coefTotal |-> StrOf(100)]

\* safeNum(v: string) and safeNumValue(v: number | null) of this page
registSafeNum(s) == IF s.empty \/ ~s.finite THEN 0 ELSE s.v
safeNumValue(v) == IF v.type = "number" /\ v.finite THEN v.v ELSE 0

\* coefTotal of the load effect: the stored coef_total, else the sum of the
\* parts when one of them is stored, else the initial '1.00'
registLoadCoefTotal(row) ==
  LET hasCoefParts == row.interior_level_coef.type = "number" \/ row.contract_year_coef.type = "number"
      derivedCoef == safeNumValue(row.interior_level_coef) + safeNumValue(row.contract_year_coef)
  IN IF row.coef_total.type = "number" THEN numToString(row.coef_total)
     ELSE IF hasCoefParts THEN StrOf(derivedCoef)
     ELSE initialMax.coefTotal

\* setMaxForm({...}) of the load effect
maxFormOfEntry(row) ==
  [floor |-> toNumString(row.floor),
   area |-> toNumString(row.area_sqm),
   price |-> toNumString(row.max_price),
   interior |-> toFixedString(row.interior_level_coef, initialMax.interior),
   year |-> toFixedString(row.contract_year_coef, initialMax.year),
   coefTotal |-> registLoadCoefTotal(row)]

\* newCoef of the sync effect: (safeNum(interior) + safeNum(year)).toFixed(2)
newCoefOf(f) == StrOf(registSafeNum(f.interior) + registSafeNum(f.year))

\* the maxUnit, maxFloorCoef and maxTarget memos
maxUnitOf(f) == unitPrice(registSafeNum(f.price), registSafeNum(f.area))
maxFloorCoefClamped(pattern, f) ==
  IF pattern \notin PatternNames THEN 1 * CoefScale
  ELSE LET list == floorCoefs[pattern]
           floor == parseIntOf(f.floor)
       IN IF floor.finite /\ floor.v > Len(list) THEN list[Len(list)]
          ELSE IF floor.finite /\ floor.v \in DOMAIN list THEN list[floor.v]
          ELSE list[1]
maxFloorCoef(pattern, f) ==
  IF pattern \notin PatternNames THEN 1 * CoefScale
  ELSE LET list == floorCoefs[pattern]
           floor == parseIntOf(f.floor)
       IN IF floor.finite /\ floor.v \in DOMAIN list THEN list[floor.v] ELSE list[1]
maxTargetOf(pattern, f) ==
  RoundMulDiv(maxUnitOf(f), registSafeNum(f.coefTotal) * maxFloorCoef(pattern, f), CoefScale * CoefScale)

(***************************************************************************)
(* Stored rows the pages read.                                             *)
(***************************************************************************)
EntryRow(kind, area, maxPrice, pastMin, coefTotal, interior, year, reins, contract) ==
  [contract_kind |-> kind, floor |-> Null, area_sqm |-> area, max_price |-> maxPrice,
   past_min |-> pastMin, coef_total |-> coefTotal, interior_level_coef |-> interior,
   contract_year_coef |-> year, reins_registered_date |-> reins, contract_date |-> contract]

StockRow(area, listPrice, baseUnit, coefTotal, floorCoef, tUnit, tClose, raise, buy) ==
  [floor |-> Null, area_sqm |-> area, list_price |-> listPrice, base_unit_price |-> baseUnit,
   coef_total |-> coefTotal, floor_coef |-> floorCoef, target_unit_price |-> tUnit,
   target_close_price |-> tClose, raise_price |-> raise, buy_target_price |-> buy,
   registered_date |-> NoDate, contract_date |-> NoDate]

\* input values of the bounded check
AreaValues == {Null, NaN, Num(0), Num(-1000), Num(5000), Num(6000), Num(6832), Num(8000)}
PriceValues == {Null, Num(-19800000), Num(10000000), Num(19800000)}
CoefValues == {Null, NaN, Num(0), Num(100), Num(105)}
CoefParts == {<<Null, Null>>, <<Num(50), Num(55)>>}
PastMinValues == {Null, Num(6155729), Num(6355729), Num(5955729), Num(6455730), Num(5855728)}
DatePairs ==
  {<<NoDate, NoDate>>, <<Day(0), Day(20)>>, <<Day(0), Day(45)>>, <<BadDate, Day(20)>>,
   <<Day(0), NoDate>>, <<Day(0), BadDate>>, <<Day(20), Day(0)>>, <<Day(20), Day(20)>>, <<Day(0), Day(30)>>}
StockDatePairs == {<<Day(10), NoDate>>, <<Day(10), Day(30)>>, <<BadDate, Day(30)>>, <<NoDate, Day(30)>>}
\* readings of the clock, later than every stored date
NowValues == {Day(40), Day(41)}
PatternValues == PatternNames \cup {"", "other"}
StoredValues(v) == {Null, NaN, Num(0), Num(v)}

SweepEntries ==
  {EntryRow("MAX", a, p, Null, c, cp[1], cp[2], NoDate, NoDate) :
     a \in AreaValues, p \in PriceValues, c \in CoefValues, cp \in CoefParts}
GapEntries ==
  {EntryRow("MAX", Num(6832), Num(19800000), m, Num(105), Null, Null, d[1], d[2]) :
     m \in PastMinValues, d \in DatePairs}
MiniEntries ==
  {EntryRow("MINI", a, Null, m, c, Null, Null, NoDate, NoDate) :
     a \in {Num(0), Num(6832)}, m \in {Null, Num(9000000)}, c \in {Null, Num(105)}}
FloorValues == {Num(0), Num(-1), Num(1), Num(3), Num(5), Num(6)}
FloorEntries ==
  {[EntryRow("MAX", Num(6832), Num(19800000), Null, Num(105), Null, Null, NoDate, NoDate)
      EXCEPT !.floor = f] : f \in FloorValues}
EntryRows == SweepEntries \cup GapEntries \cup MiniEntries \cup FloorEntries

SweepStocks ==
  {StockRow(a, l, b, c, f, Null, Null, Null, Null) :
     a \in {Null, Num(0), Num(-1000), Num(6832), Num(8000)}, l \in {Null, Num(19800000)},
     b \in {Null, Num(289813)}, c \in CoefValues, f \in {Null, Num(0), Num(98)}}
OverrideStocks ==
  {StockRow(a, Num(19800000), Num(289813), Num(105), f, tu, tc, r, bt) :
     a \in {Num(0), Num(6832)}, f \in {Null, Num(98)},
     tu \in StoredValues(300000), tc \in StoredValues(20000000),
     r \in StoredValues(9000000) \cup {Num(10000100)}, bt \in StoredValues(5000000)}
DateStocks ==
  {[StockRow(Num(6832), Num(19800000), Num(289813), Num(105), Null, Null, Null, Null, Null)
      EXCEPT !.registered_date = d[1], !.contract_date = d[2]] : d \in StockDatePairs}
FloorStocks ==
  {[StockRow(Num(6832), Null, Num(289813), Num(105), Null, Null, Null, Null, Null)
      EXCEPT !.floor = f] : f \in FloorValues}
StockRows == SweepStocks \cup OverrideStocks \cup DateStocks \cup FloorStocks

DefaultEntry == EntryRow("MAX", Num(6832), Num(19800000), Null, Num(105), Null, Null, NoDate, NoDate)
DefaultStock == StockRow(Null, Null, Null, Null, Null, Null, Null, Null, Null)

(***************************************************************************)
(* Stock list page (tab-stock/page.tsx): the complex selection and the two *)
(* loading effects.  A request in flight remembers the values its effect   *)
(* closed over and its `mounted` flag, which the effect's cleanup clears.  *)
(* cards is the complex whose stocks are shown ("" for the empty list).    *)
(***************************************************************************)
\* housing_complexes in the order the query returns them
ComplexList == <<"X", "Y">>
ComplexIds == {ComplexList[i] : i \in DOMAIN ComplexList}
\* values of the complexId query parameter: absent, existing, unknown
QueryValues == {"", "X", "Y", "Z"}
MaxReloadKey == 1

StockListIdle ==
  [mounted |-> FALSE, qs |-> "", complexes |-> <<>>, selectedComplexId |-> "", cards |-> "",
   msg |-> "", loading |-> FALSE, deletingId |-> FALSE, reloadKey |-> 0, loads |-> {}, picked |-> ""]

ComplexesLoad(sel) == [kind |-> "complexes", complex |-> sel, key |-> 0, mounted |-> TRUE]
StocksLoad(sel, key) == [kind |-> "stocks", complex |-> sel, key |-> key, mounted |-> TRUE]

\* the cleanups of the effects of the given kinds: mounted = false
cleanup(loads, kinds) ==
  {[l EXCEPT !.mounted = IF l.kind \in kinds THEN FALSE ELSE @] : l \in loads}

\* the loadComplexes effect body
runLoadComplexes(s) == [s EXCEPT !.loads = @ \cup {ComplexesLoad(s.selectedComplexId)}]
\* the loadStocks effect body, up to its await
runLoadStocks(s) ==
  IF s.selectedComplexId = "" THEN [s EXCEPT !.cards = ""]
  ELSE [s EXCEPT !.loading = TRUE, !.msg = "",
                 !.loads = @ \cup {StocksLoad(s.selectedComplexId, s.reloadKey)}]

\* setSelectedComplexId(id): a changed value re-runs both effects
setSelectedComplexId(s, id) ==
  IF id = s.selectedComplexId THEN s
  ELSE runLoadStocks(runLoadComplexes(
         [s EXCEPT !.selectedComplexId = id, !.loads = cleanup(@, {"complexes", "stocks"})]))

\* loadComplexes after its await
loadComplexesSettle(s, l, ok) ==
  IF ~l.mounted THEN s
  ELSE IF ~ok THEN [s EXCEPT !.msg = "complexes-failed"]
  ELSE LET pre == IF s.qs # "" THEN s.qs ELSE l.complex
           s1 == [s EXCEPT !.complexes = ComplexList]
       IN IF pre \in ComplexIds THEN setSelectedComplexId(s1, pre)
          ELSE IF l.complex = "" /\ Len(ComplexList) > 0 THEN setSelectedComplexId(s1, ComplexList[1])
          ELSE s1

\* loadStocks after its await: try / catch / finally
loadStocksSettleUnguarded(s, l, ok) ==
  IF ok THEN [s EXCEPT !.cards = l.complex, !.loading = FALSE]
  ELSE [s EXCEPT !.msg = "stocks-failed", !.loading = FALSE]
loadStocksSettle(s, l, ok) ==
  IF ~l.mounted THEN s
  ELSE IF ok THEN [s EXCEPT !.cards = l.complex, !.loading = FALSE]
  ELSE [s EXCEPT !.msg = "stocks-failed", !.loading = FALSE]

(***************************************************************************)
(* The auth client and the two components that listen to it: RequireAuth   *)
(* (components/RequireAuth.tsx) and the root page (app/page.tsx).  A user  *)
(* is "a" or "b"; "" is no session.                                        *)
(***************************************************************************)
Users == {"a", "b"}

\* getSessionUser is the session the pending getSession() call will report
RequireAuthIdle ==
  [mounted |-> FALSE, ready |-> FALSE, authed |-> FALSE, redirect |-> FALSE,
   getSession |-> FALSE, getSessionUser |-> "", observed |-> "unknown"]

\* run() after its await; outcome "ok" or "throw"
requireAuthRun(s, outcome) ==
  IF ~s.mounted THEN s
  ELSE IF outcome = "throw" THEN [s EXCEPT !.ready = TRUE]
  ELSE IF s.getSessionUser = "" THEN [s EXCEPT !.redirect = TRUE, !.ready = TRUE, !.observed = ""]
  ELSE [s EXCEPT !.authed = TRUE, !.ready = TRUE, !.observed = s.getSessionUser]

\* onChange(_event, session)
requireAuthOnChange(s, user) ==
  IF user = "" THEN [s EXCEPT !.redirect = TRUE, !.observed = user]
  ELSE [s EXCEPT !.authed = TRUE, !.observed = user]

\* if (!ready || !authed) return null
rendersChildren(s) == s.mounted /\ s.ready /\ s.authed

\* root page: posts is the user whose posts (with signed URLs) are in state,
\* "" for the empty list; a refreshList call in flight is at its getUser
\* await or at its select / createSignedUrl awaits for the user it read
RootIdle ==
  [mounted |-> FALSE, userEmail |-> "", posts |-> "", loadingList |-> FALSE,
   getSession |-> FALSE, getSessionUser |-> "", refreshes |-> {}]

RefreshAtGetUser == [stage |-> "getUser", user |-> ""]
RefreshAtSelect(u) == [stage |-> "select", user |-> u]

\* refreshList() up to its first await
refreshList(s) == [s EXCEPT !.loadingList = TRUE, !.refreshes = @ \cup {RefreshAtGetUser}]

\* the getSession().then callback of the auth effect
rootGetSessionThen(s) ==
  IF s.getSessionUser # "" THEN refreshList([s EXCEPT !.userEmail = s.getSessionUser]) ELSE s

\* the onAuthStateChange callback of the auth effect
rootOnChange(s, user) ==
  IF user # "" THEN refreshList([s EXCEPT !.userEmail = user])
  ELSE [s EXCEPT !.userEmail = "", !.posts = ""]

\* refreshList after getUser: user is the signed-in user at that moment
refreshAfterGetUser(s, user) ==
  IF user = "" THEN [s EXCEPT !.posts = "", !.loadingList = FALSE]
  ELSE [s EXCEPT !.refreshes = @ \cup {RefreshAtSelect(user)}]

\* refreshList after the select and the signed URLs: try / catch / finally
refreshAfterSelect(s, r, ok) ==
  IF ok THEN [s EXCEPT !.posts = r.user, !.loadingList = FALSE]
  ELSE [s EXCEPT !.loadingList = FALSE]

(***************************************************************************)
(* Historical list (tab-list/page.tsx): filter, sort and pagination of the *)
(* loaded items.  An item is its index in the loaded list with the values  *)
(* the filters and the sort read.                                          *)
(***************************************************************************)
PAGE_SIZE_OPTIONS == {20, 50, 100}
MaxItems == 45
\* numbers of rows the query may return
ItemCounts == {0, 1, 20, 21, MaxItems}
\* texts of the area filter: '' and minimum areas
AreaFilters == {0, 10, 26, 100}
CardSortKeys == {"unitPrice", "buyTarget"}

ListItem(i) == [id |-> i, area |-> i, unitPrice |-> (i * 7) % 11, buyTarget |-> 0 - i]
ListItems(n) == [i \in 1..n |-> ListItem(i)]

TabListIdle ==
  [mounted |-> FALSE, rows |-> 0, items |-> <<>>, fArea |-> 0, pageSize |-> 50, page |-> 1,
   cardSortKey |-> "unitPrice", cardSortAsc |-> TRUE, resetPending |-> FALSE]

Min(a, b) == IF a < b THEN a ELSE b
Max(a, b) == IF a > b THEN a ELSE b
\* Math.ceil(a / b) for a >= 0, b > 0
CeilDiv(a, b) == (a + b - 1) \div b
\* arr.slice(start, end) with 0 <= start
Slice(arr, start, end) ==
  IF start >= Min(end, Len(arr)) THEN <<>> ELSE SubSeq(arr, start + 1, Min(end, Len(arr)))

\* items.filter(...): only the area filter is set
filtered(s) == SelectSeq(s.items, LAMBDA p : ~(s.fArea > 0 /\ p.area < s.fArea))

\* the comparator of cardSorted
cardCompare(a, b, key, asc) == IF asc THEN a[key] - b[key] ELSE 0 - (a[key] - b[key])

\* Array.prototype.sort is stable: x goes behind the elements that do not compare greater
RECURSIVE sortInsert(_, _, _, _)
sortInsert(sorted, x, key, asc) ==
  IF sorted = <<>> THEN <<x>>
  ELSE IF cardCompare(sorted[Len(sorted)], x, key, asc) <= 0 THEN Append(sorted, x)
  ELSE Append(sortInsert(SubSeq(sorted, 1, Len(sorted) - 1), x, key, asc), sorted[Len(sorted)])

RECURSIVE sortSeq(_, _, _)
sortSeq(arr, key, asc) ==
  IF arr = <<>> THEN <<>>
  ELSE sortInsert(sortSeq(SubSeq(arr, 1, Len(arr) - 1), key, asc), arr[Len(arr)], key, asc)

cardSorted(s) == sortSeq(filtered(s), s.cardSortKey, s.cardSortAsc)
hasItems(s) == Len(cardSorted(s)) > 0
totalPages(s) == Max(1, CeilDiv(Len(cardSorted(s)), s.pageSize))
currentPageUnclamped(s) == s.page
currentPage(s) == IF hasItems(s) THEN Min(s.page, totalPages(s)) ELSE 1
pageItems(s) ==
  LET start == (currentPage(s) - 1) * s.pageSize
  IN Slice(cardSorted(s), start, start + s.pageSize)

\* setCardSort(k)
setCardSort(s, k) ==
  IF s.cardSortKey = k THEN [s EXCEPT !.page = 1, !.cardSortAsc = ~s.cardSortAsc]
  ELSE [s EXCEPT !.page = 1, !.cardSortKey = k, !.cardSortAsc = TRUE]

(***************************************************************************)
(* handleSubmit of the stock edit page, await by await.  The handler reads *)
(* the values of the render in which the form was submitted: closure holds *)
(* whether a complex and an entry were selected, the parsed area and the   *)
(* payload built from that render's floor row.                             *)
(***************************************************************************)
NoClosure == [complex |-> FALSE, entry |-> FALSE, area |-> Null, payload |-> DefaultStock]

\* stockId: the route has a stock id; pdf: a file is chosen; user: getUser reported a user
StockEditIdle ==
  [stockId |-> TRUE, pdf |-> FALSE, saving |-> FALSE, msg |-> "", pc |-> "idle",
   user |-> FALSE, closure |-> NoClosure, uploaded |-> FALSE, navigated |-> FALSE]

\* the checks of lines 283-287 after getUser reported a user
submitValidationNoArea(c) ==
  IF ~c.complex THEN "select-complex"
  ELSE IF ~c.entry THEN "select-entry"
  ELSE "ok"
submitValidation(c) ==
  IF ~c.complex THEN "select-complex"
  ELSE IF ~c.entry THEN "select-entry"
  ELSE IF ~TruthyNum(c.area) \/ c.area.v <= 0 THEN "enter-area"
  ELSE "ok"

\* handleSubmit up to the getUser await
submitStart(s, c) ==
  IF ~s.stockId THEN [s EXCEPT !.msg = "no-stock"]
  ELSE [s EXCEPT !.saving = TRUE, !.msg = "updating", !.pc = "getUser", !.user = FALSE,
                 !.closure = c]

\* a return inside try, or the catch: the finally runs setSaving(false)
submitEnd(s, msg) == [s EXCEPT !.msg = msg, !.saving = FALSE, !.pc = "idle"]

\* after getUser: outcome is "error", "no-user" or "user"
submitAfterGetUser(s, outcome) ==
  IF outcome = "error" THEN submitEnd(s, "update-failed")
  ELSE IF outcome = "no-user" THEN submitEnd(s, "login-required")
  ELSE IF submitValidation(s.closure) # "ok" THEN submitEnd([s EXCEPT !.user = TRUE], submitValidation(s.closure))
  ELSE [s EXCEPT !.user = TRUE, !.pc = IF s.pdf THEN "upload" ELSE "update"]

\* after uploadPdf
submitAfterUpload(s, ok) ==
  IF ok THEN [s EXCEPT !.uploaded = TRUE, !.pc = "update"]
  ELSE submitEnd(s, "update-failed")

(***************************************************************************)
(* State: the stored rows, the page that is mounted, its derived view      *)
(* model, and the state of the stock edit page.                            *)
(***************************************************************************)
VARIABLES dbEntry, dbStock, dbPattern, page, view, form, maxForm, editDone,
          stockList, session, auth, root, tabList, stockEdit

vars == <<dbEntry, dbStock, dbPattern, page, view, form, maxForm, editDone,
          stockList, session, auth, root, tabList, stockEdit>>
\* the components that have a state of their own besides the valuation pages
signedInPages == <<session, auth, root>>
others == <<stockList, signedInPages, tabList, stockEdit>>
SignedInPagesIdle == session = "" /\ auth = RequireAuthIdle /\ root = RootIdle
OthersIdle ==
  /\ stockList = StockListIdle /\ SignedInPagesIdle /\ tabList = TabListIdle
  /\ stockEdit = StockEditIdle
db == <<dbEntry, dbStock, dbPattern>>

NoView == [site |-> "none"]

Init ==
  /\ \/ dbEntry \in EntryRows /\ dbStock = DefaultStock /\ dbPattern \in PatternValues
     \/ dbEntry = DefaultEntry /\ dbStock \in StockRows /\ dbPattern \in {"", "max-aggressive"}
  /\ page = "none"
  /\ view = NoView
  /\ form = initialForm
  /\ maxForm = initialMax
  /\ editDone = {}
  /\ OthersIdle

\* historical list: run() maps the fetched rows; the cards render judge(p)
TabListRun ==
  /\ page' = "tab-list"
  /\ view' = [site |-> "tab-list", item |-> TabListItem(dbEntry), judge |-> judge(TabListItem(dbEntry))]
  /\ form' = initialForm /\ maxForm' = initialMax /\ editDone' = {}
  /\ UNCHANGED db
  /\ UNCHANGED others

SampleListRun ==
  /\ page' = "sample-list"
  /\ view' = [site |-> "sample-list", item |-> SampleListItem(dbEntry),
              judge |-> sampleJudge(SampleListItem(dbEntry))]
  /\ form' = initialForm /\ maxForm' = initialMax /\ editDone' = {}
  /\ UNCHANGED db
  /\ UNCHANGED others

DetailRun ==
  /\ page' = "detail"
  /\ view' = [site |-> "detail", computed |-> DetailComputed(dbEntry)]
  /\ form' = initialForm /\ maxForm' = initialMax /\ editDone' = {}
  /\ UNCHANGED db
  /\ UNCHANGED others

\* per-complex list: loadComplexes selects the complex, loadEntries builds the card
ComplexListLoadEntries ==
  /\ page' = "complex-list"
  /\ view' = [site |-> "complex-list", card |-> complexCard(dbEntry, dbPattern)]
  /\ form' = initialForm /\ maxForm' = initialMax /\ editDone' = {}
  /\ UNCHANGED db
  /\ UNCHANGED others

\* loadStocks reads the clock once per card
StockListLoadStocks ==
  /\ page' = "stock-list"
  /\ \E now \in NowValues : view' = [site |-> "stock-list", card |-> stockCard(dbStock, now)]
  /\ form' = initialForm /\ maxForm' = initialMax /\ editDone' = {}
  /\ UNCHANGED db
  /\ UNCHANGED others

\* the pattern of selectedComplex: null until the complexes are loaded
editPattern(done) == IF "complexes" \in done THEN dbPattern ELSE ""
editView(f, done) ==
  [site |-> "stock-edit", baseUnit |-> editBaseUnit(f), baseCoef |-> editBaseCoef(f),
   areaNum |-> editAreaNum(f), floors |-> editFloors(f, editPattern(done)),
   selectedFloorRow |-> selectedFloorRow(editFloors(f, editPattern(done)), selectedFloorNum(f))]

StockEditMount ==
  /\ page' = "stock-edit"
  /\ form' = initialForm
  /\ maxForm' = initialMax
  /\ editDone' = {}
  /\ view' = editView(initialForm, {})
  /\ UNCHANGED db
  /\ UNCHANGED others

\* run(): the stock row arrives; selects its complex and entry, fills the form
StockEditStockLoaded ==
  /\ page = "stock-edit" /\ "stock" \notin editDone
  /\ form' = formOfStock(dbStock)
  /\ editDone' = editDone \cup {"stock"}
  /\ view' = editView(form', editDone')
  /\ UNCHANGED <<db, page, maxForm>>
  /\ UNCHANGED others

\* loadComplexes(): the complexes arrive; the first is selected when none is
StockEditComplexesLoaded ==
  /\ page = "stock-edit" /\ "complexes" \notin editDone
  /\ editDone' = editDone \cup {"complexes"}
  /\ view' = editView(form, editDone')
  /\ UNCHANGED <<db, page, form, maxForm>>
  /\ UNCHANGED others

\* loadEntries() and the selectedEntry effect: needs a selected complex
StockEditEntrySelected ==
  /\ page = "stock-edit" /\ editDone \cap {"stock", "complexes"} # {}
  /\ dbEntry.contract_kind = "MAX"
  /\ form' = formMergeEntry(form, editEntryOf(dbEntry))
  /\ editDone' = editDone \cup {"entry"}
  /\ view' = editView(form', editDone')
  /\ UNCHANGED <<db, page, maxForm>>
  /\ UNCHANGED others

\* handleSubmit: needs a selected complex, a selected entry and an area > 0;
\* writes the payload and leaves for the stock list
StockEditSubmit ==
  /\ page = "stock-edit"
  /\ editDone \cap {"stock", "complexes"} # {}
  /\ editDone \cap {"stock", "entry"} # {}
  /\ TruthyNum(toNum(form.area)) /\ toNum(form.area).v > 0
  /\ dbStock' = stockPayload(dbStock, form, view.selectedFloorRow, view.baseUnit, view.baseCoef)
  /\ page' = "none"
  /\ view' = NoView
  /\ form' = initialForm /\ maxForm' = initialMax /\ editDone' = {}
  /\ UNCHANGED <<dbEntry, dbPattern>>
  /\ UNCHANGED others

\* the pattern of selectedComplex: the complex of the loaded entry, once the
\* complexes are loaded
registPattern(done) == IF {"entry", "complexes"} \subseteq done THEN dbPattern ELSE ""
registView(f, done) ==
  [site |-> "regist-edit", coefTotal |-> registSafeNum(f.coefTotal), maxUnit |-> maxUnitOf(f),
   maxFloorCoef |-> maxFloorCoef(registPattern(done), f), maxTarget |-> maxTargetOf(registPattern(done), f)]

RegistEditMount ==
  /\ page' = "regist-edit"
  /\ maxForm' = initialMax
  /\ form' = initialForm
  /\ editDone' = {}
  /\ view' = registView(initialMax, {})
  /\ UNCHANGED db
  /\ UNCHANGED others

\* run(): the entry row arrives; a MAX row fills the MAX form
RegistEditEntryLoaded ==
  /\ page = "regist-edit" /\ "entry" \notin editDone
  /\ maxForm' = IF dbEntry.contract_kind = "MAX" THEN maxFormOfEntry(dbEntry) ELSE maxForm
  /\ editDone' = editDone \cup {"entry"}
  /\ view' = registView(maxForm', editDone')
  /\ UNCHANGED <<db, page, form>>
  /\ UNCHANGED others

RegistEditComplexesLoaded ==
  /\ page = "regist-edit" /\ "complexes" \notin editDone
  /\ editDone' = editDone \cup {"complexes"}
  /\ view' = registView(maxForm, editDone')
  /\ UNCHANGED <<db, page, form, maxForm>>
  /\ UNCHANGED others

\* the effect "coefTotal = interior + year": runs after a render in which the
\* three texts disagree
RegistEditCoefSync ==
  /\ page = "regist-edit"
  /\ newCoefOf(maxForm) # maxForm.coefTotal
  /\ maxForm' = [maxForm EXCEPT !.coefTotal = newCoefOf(maxForm)]
  /\ view' = registView(maxForm', editDone)
  /\ UNCHANGED <<db, page, form, editDone>>
  /\ UNCHANGED others

Next ==
  \/ TabListRun
  \/ SampleListRun
  \/ DetailRun
  \/ ComplexListLoadEntries
  \/ StockListLoadStocks
  \/ StockEditMount
  \/ StockEditStockLoaded
  \/ StockEditComplexesLoaded
  \/ StockEditEntrySelected
  \/ StockEditSubmit
  \/ RegistEditMount
  \/ RegistEditEntryLoaded
  \/ RegistEditComplexesLoaded
  \/ RegistEditCoefSync

Spec == Init /\ [][Next]_vars

(***************************************************************************)
(* The stock list page as a process of its own: mount, the two requests    *)
(* settling in any order, the user's pick in the complex dropdown, a       *)
(* delete, and unmount.                                                    *)
(***************************************************************************)
valuationVars == <<dbEntry, dbStock, dbPattern, page, view, form, maxForm, editDone>>

ValuationIdle ==
  /\ dbEntry = DefaultEntry /\ dbStock = DefaultStock /\ dbPattern = ""
  /\ page = "none" /\ view = NoView
  /\ form = initialForm /\ maxForm = initialMax /\ editDone = {}

InitStockList ==
  /\ ValuationIdle
  /\ SignedInPagesIdle
  /\ tabList = TabListIdle
  /\ stockEdit = StockEditIdle
  /\ stockList = StockListIdle

\* the page mounts with a query string
StockListMount ==
  /\ stockList = StockListIdle
  /\ \E q \in QueryValues :
       stockList' = runLoadStocks(runLoadComplexes([StockListIdle EXCEPT !.mounted = TRUE, !.qs = q]))
  /\ UNCHANGED <<valuationVars, signedInPages, tabList, stockEdit>>

StockListUnmount ==
  /\ stockList.mounted
  /\ stockList' = [stockList EXCEPT !.mounted = FALSE,
                                    !.loads = cleanup(@, {"complexes", "stocks"})]
  /\ UNCHANGED <<valuationVars, signedInPages, tabList, stockEdit>>

StockListComplexesSettle ==
  /\ \E l \in stockList.loads, ok \in BOOLEAN :
       /\ l.kind = "complexes"
       /\ stockList' = loadComplexesSettle([stockList EXCEPT !.loads = @ \ {l}], l, ok)
  /\ UNCHANGED <<valuationVars, signedInPages, tabList, stockEdit>>

StockListStocksSettle ==
  /\ \E l \in stockList.loads, ok \in BOOLEAN :
       /\ l.kind = "stocks"
       /\ stockList' = loadStocksSettle([stockList EXCEPT !.loads = @ \ {l}], l, ok)
  /\ UNCHANGED <<valuationVars, signedInPages, tabList, stockEdit>>

\* onChange of the complex dropdown: the options are the loaded complexes
StockListPick ==
  /\ stockList.mounted
  /\ \E i \in DOMAIN stockList.complexes :
       /\ stockList.complexes[i] # stockList.selectedComplexId
       /\ stockList' = setSelectedComplexId([stockList EXCEPT !.picked = stockList.complexes[i]],
                                            stockList.complexes[i])
  /\ UNCHANGED <<valuationVars, signedInPages, tabList, stockEdit>>

\* handleDelete of a shown card, up to its awaits
StockListDeleteStart ==
  /\ stockList.mounted /\ stockList.cards # "" /\ ~stockList.deletingId
  /\ stockList.reloadKey < MaxReloadKey
  /\ stockList' = [stockList EXCEPT !.deletingId = TRUE, !.msg = "deleting"]
  /\ UNCHANGED <<valuationVars, signedInPages, tabList, stockEdit>>

\* handleDelete after its awaits: setReloadKey re-runs the loadStocks effect
StockListDeleteSettle ==
  /\ stockList.mounted /\ stockList.deletingId
  /\ \E ok \in BOOLEAN :
       stockList' =
         IF ok THEN runLoadStocks([stockList EXCEPT !.deletingId = FALSE, !.msg = "deleted",
                                                    !.reloadKey = @ + 1,
                                                    !.loads = cleanup(@, {"stocks"})])
         ELSE [stockList EXCEPT !.deletingId = FALSE, !.msg = "delete-failed"]
  /\ UNCHANGED <<valuationVars, signedInPages, tabList, stockEdit>>

NextStockList ==
  \/ StockListMount
  \/ StockListUnmount
  \/ StockListComplexesSettle
  \/ StockListStocksSettle
  \/ StockListPick
  \/ StockListDeleteStart
  \/ StockListDeleteSettle

SpecStockList == InitStockList /\ [][NextStockList]_vars

(***************************************************************************)
(* The auth client with RequireAuth and the root page listening to it.     *)
(***************************************************************************)
InitSession ==
  /\ ValuationIdle
  /\ stockList = StockListIdle
  /\ tabList = TabListIdle
  /\ stockEdit = StockEditIdle
  /\ session \in Users \cup {""}
  /\ auth = RequireAuthIdle
  /\ root = RootIdle

\* a page wrapped in RequireAuth mounts: run() calls getSession, onChange is subscribed
RequireAuthMount ==
  /\ auth = RequireAuthIdle
  /\ auth' = [auth EXCEPT !.mounted = TRUE, !.getSession = TRUE, !.getSessionUser = session]
  /\ UNCHANGED <<valuationVars, stockList, tabList, stockEdit, session, root>>

RequireAuthGetSessionSettle ==
  /\ auth.getSession
  /\ \E outcome \in {"ok", "throw"} :
       auth' = requireAuthRun([auth EXCEPT !.getSession = FALSE], outcome)
  /\ UNCHANGED <<valuationVars, stockList, tabList, stockEdit, session, root>>

\* the navigation away (router.replace or a link) unmounts the component
RequireAuthUnmount ==
  /\ auth.mounted
  /\ auth' = [auth EXCEPT !.mounted = FALSE]
  /\ UNCHANGED <<valuationVars, stockList, tabList, stockEdit, session, root>>

\* the root page mounts: the auth effect calls getSession and subscribes
RootMount ==
  /\ root = RootIdle
  /\ root' = [root EXCEPT !.mounted = TRUE, !.getSession = TRUE, !.getSessionUser = session]
  /\ UNCHANGED <<valuationVars, stockList, tabList, stockEdit, session, auth>>

RootGetSessionSettle ==
  /\ root.getSession
  /\ root' = rootGetSessionThen([root EXCEPT !.getSession = FALSE])
  /\ UNCHANGED <<valuationVars, stockList, tabList, stockEdit, session, auth>>

\* sign-in, sign-out or a change of user: every subscribed listener is called
AuthStateChange ==
  /\ \E user \in Users \cup {""} :
       /\ user # session
       /\ session' = user
       /\ auth' = IF auth.mounted THEN requireAuthOnChange(auth, user) ELSE auth
       /\ root' = IF root.mounted THEN rootOnChange(root, user) ELSE root
  /\ UNCHANGED <<valuationVars, stockList, tabList, stockEdit>>

RefreshGetUserSettle ==
  /\ RefreshAtGetUser \in root.refreshes
  /\ root' = refreshAfterGetUser([root EXCEPT !.refreshes = @ \ {RefreshAtGetUser}], session)
  /\ UNCHANGED <<valuationVars, stockList, tabList, stockEdit, session, auth>>

RefreshSelectSettle ==
  /\ \E r \in root.refreshes, ok \in BOOLEAN :
       /\ r.stage = "select"
       /\ root' = refreshAfterSelect([root EXCEPT !.refreshes = @ \ {r}], r, ok)
  /\ UNCHANGED <<valuationVars, stockList, tabList, stockEdit, session, auth>>

NextSession ==
  \/ RequireAuthMount
  \/ RequireAuthGetSessionSettle
  \/ RequireAuthUnmount
  \/ RootMount
  \/ RootGetSessionSettle
  \/ AuthStateChange
  \/ RefreshGetUserSettle
  \/ RefreshSelectSettle

SpecSession == InitSession /\ [][NextSession]_vars

(***************************************************************************)
(* The historical list as a process of its own.  React runs the effects of *)
(* a render before it handles the next event, so the user's handlers wait  *)
(* for a pending page reset.                                               *)
(***************************************************************************)
tabListRest == <<valuationVars, stockList, signedInPages, stockEdit>>

InitTabList ==
  /\ ValuationIdle
  /\ stockList = StockListIdle
  /\ SignedInPagesIdle
  /\ stockEdit = StockEditIdle
  /\ \E n \in ItemCounts : tabList = [TabListIdle EXCEPT !.rows = n]

\* mount: the load starts; the two page reset effects run (page is 1 already)
TabListMount ==
  /\ ~tabList.mounted
  /\ tabList' = [tabList EXCEPT !.mounted = TRUE]
  /\ UNCHANGED tabListRest

\* run() after its await: setItems(mapped)
TabListItemsLoaded ==
  /\ tabList.mounted /\ tabList.items = <<>> /\ tabList.rows > 0
  /\ tabList' = [tabList EXCEPT !.items = ListItems(tabList.rows)]
  /\ UNCHANGED tabListRest

\* onChange of a filter input, or resetFilters: the reset effect is scheduled
TabListSetFilter ==
  /\ tabList.mounted /\ ~tabList.resetPending
  /\ \E v \in AreaFilters :
       /\ v # tabList.fArea
       /\ tabList' = [tabList EXCEPT !.fArea = v, !.resetPending = TRUE]
  /\ UNCHANGED tabListRest

\* onChange of the page size select: the reset effect is scheduled
TabListSetPageSize ==
  /\ tabList.mounted /\ ~tabList.resetPending
  /\ \E v \in PAGE_SIZE_OPTIONS :
       /\ v # tabList.pageSize
       /\ tabList' = [tabList EXCEPT !.pageSize = v, !.resetPending = TRUE]
  /\ UNCHANGED tabListRest

\* the effects of lines 130-136: setPage(1)
TabListPageReset ==
  /\ tabList.mounted /\ tabList.resetPending
  /\ tabList' = [tabList EXCEPT !.page = 1, !.resetPending = FALSE]
  /\ UNCHANGED tabListRest

TabListSortClick ==
  /\ tabList.mounted /\ ~tabList.resetPending
  /\ \E k \in CardSortKeys : tabList' = setCardSort(tabList, k)
  /\ UNCHANGED tabListRest

\* the previous button, disabled on the first page
TabListPrev ==
  /\ tabList.mounted /\ ~tabList.resetPending
  /\ hasItems(tabList) /\ currentPage(tabList) > 1
  /\ tabList' = [tabList EXCEPT !.page = Max(1, @ - 1)]
  /\ UNCHANGED tabListRest

\* the next button, disabled on the last page
TabListNextPage ==
  /\ tabList.mounted /\ ~tabList.resetPending
  /\ hasItems(tabList) /\ currentPage(tabList) < totalPages(tabList)
  /\ tabList' = [tabList EXCEPT !.page = Min(totalPages(tabList), @ + 1)]
  /\ UNCHANGED tabListRest

NextTabList ==
  \/ TabListMount
  \/ TabListItemsLoaded
  \/ TabListSetFilter
  \/ TabListSetPageSize
  \/ TabListPageReset
  \/ TabListSortClick
  \/ TabListPrev
  \/ TabListNextPage

SpecTabList == InitTabList /\ [][NextTabList]_vars

(***************************************************************************)
(* The stock edit page with its submit handler running await by await.     *)
(***************************************************************************)
SubmitStocks ==
  {StockRow(a, Null, b, Num(105), Null, Null, Null, Null, Null) :
     a \in {Null, Num(0), Num(-1000), Num(6832)}, b \in {Null, Num(289813)}}
SubmitEntries ==
  {DefaultEntry,
   EntryRow("MAX", Null, Num(19800000), Null, Num(105), Null, Null, NoDate, NoDate),
   EntryRow("MINI", Num(6832), Null, Num(9000000), Num(105), Null, Null, NoDate, NoDate)}

InitSubmit ==
  /\ dbEntry \in SubmitEntries /\ dbStock \in SubmitStocks /\ dbPattern \in {"", "max-aggressive"}
  /\ page = "none" /\ view = NoView
  /\ form = initialForm /\ maxForm = initialMax /\ editDone = {}
  /\ stockList = StockListIdle /\ SignedInPagesIdle /\ tabList = TabListIdle
  /\ \E id \in BOOLEAN : stockEdit = [StockEditIdle EXCEPT !.stockId = id]

submitRest == <<stockList, signedInPages, tabList>>

\* the values handleSubmit closes over in the current render
submitClosure ==
  [complex |-> editDone \cap {"stock", "complexes"} # {},
   entry |-> editDone \cap {"stock", "entry"} # {},
   area |-> toNum(form.area),
   payload |-> stockPayload(dbStock, form, view.selectedFloorRow, view.baseUnit, view.baseCoef)]

\* onChange of the file input
SubmitChoosePdf ==
  /\ page = "stock-edit" /\ stockEdit.pc = "idle" /\ ~stockEdit.pdf
  /\ stockEdit' = [stockEdit EXCEPT !.pdf = TRUE]
  /\ UNCHANGED <<valuationVars, submitRest>>

\* the form is submitted; the button is disabled while saving
SubmitStart ==
  /\ page = "stock-edit" /\ ~stockEdit.saving /\ stockEdit.pc = "idle"
  /\ stockEdit' = submitStart(stockEdit, submitClosure)
  /\ UNCHANGED <<valuationVars, submitRest>>

SubmitGetUserSettle ==
  /\ stockEdit.pc = "getUser"
  /\ \E outcome \in {"error", "no-user", "user"} :
       stockEdit' = submitAfterGetUser(stockEdit, outcome)
  /\ UNCHANGED <<valuationVars, submitRest>>

SubmitUploadSettle ==
  /\ stockEdit.pc = "upload"
  /\ \E ok \in BOOLEAN : stockEdit' = submitAfterUpload(stockEdit, ok)
  /\ UNCHANGED <<valuationVars, submitRest>>

\* after the update: on success the row is written and router.push leaves the page
SubmitUpdateSettle ==
  /\ stockEdit.pc = "update"
  /\ \E ok \in BOOLEAN :
       IF ok
       THEN /\ dbStock' = stockEdit.closure.payload
            /\ stockEdit' = [submitEnd(stockEdit, "updated") EXCEPT !.navigated = TRUE]
            /\ page' = "none" /\ view' = NoView
            /\ form' = initialForm /\ maxForm' = initialMax /\ editDone' = {}
            /\ UNCHANGED <<dbEntry, dbPattern>>
       ELSE /\ stockEdit' = submitEnd(stockEdit, "update-failed")
            /\ UNCHANGED valuationVars
  /\ UNCHANGED submitRest

NextSubmit ==
  \/ page = "none" /\ ~stockEdit.navigated /\ StockEditMount
  \/ stockEdit.stockId /\ StockEditStockLoaded
  \/ StockEditComplexesLoaded
  \/ StockEditEntrySelected
  \/ SubmitChoosePdf
  \/ SubmitStart
  \/ SubmitGetUserSettle
  \/ SubmitUploadSettle
  \/ SubmitUpdateSettle

SpecSubmit == InitSubmit /\ [][NextSubmit]_vars

(***************************************************************************)
(* The valuation rows shown by the mounted page, in one shape: the area,   *)
(* the target total price, the raise amount, the three deductions and the  *)
(* buy-target price, and whether raise and buy-target were recomputed.     *)
(***************************************************************************)
CostRow(site, area, targetTotal, raise, mc, brokerage, other, buyTarget, raiseComputed, buyComputed) ==
  [site |-> site, area |-> area, targetTotal |-> targetTotal, raise |-> raise, moveCost |-> mc,
   brokerage |-> brokerage, other |-> other, buyTarget |-> buyTarget,
   raiseComputed |-> raiseComputed, buyComputed |-> buyComputed]

ItemRow(site, it) ==
  CostRow(site, it.area, it.targetClose, it.raise, it.moveCost, it.brokerage, it.other, it.buyTarget, TRUE, TRUE)
FloorRows(site, area, floors) ==
  {CostRow(site, area, floors[i].targetClose, floors[i].raise, floors[i].moveCost,
           floors[i].brokerage, floors[i].other, floors[i].buyTarget, TRUE, TRUE) : i \in DOMAIN floors}

Unset(x) == ~IsFiniteNumber(x) \/ x.v = 0
NoOverrides(r) ==
  /\ Unset(r.target_unit_price) /\ Unset(r.target_close_price)
  /\ Unset(r.raise_price) /\ Unset(r.buy_target_price)

CostRows ==
  CASE page = "tab-list" -> {ItemRow(page, view.item)}
    [] page = "sample-list" -> {ItemRow(page, view.item)}
    [] page = "detail" -> {ItemRow(page, view.computed)}
    [] page = "complex-list" -> FloorRows(page, view.card.summary.area, view.card.floors)
    [] page = "stock-list" ->
         {CostRow(page, view.card.area, view.card.targetPrice, view.card.raise, view.card.moveCost,
                  view.card.brokerage, view.card.other, view.card.buyTarget,
                  Unset(dbStock.raise_price), Unset(dbStock.buy_target_price))}
    [] page = "stock-edit" -> FloorRows(page, view.areaNum, view.floors)
    [] OTHER -> {}

\* ---------------------------------------------------------------------------
\* C1 (as stated): moveCost is continuous at both tier boundaries: at area 60
\* the middle-tier formula equals the low-tier value round(60 * 132000), and
\* at area 80 it equals the high-tier value round(80 * 123000), which is the
\* moveCost shown for such a record.
C1_ContinuousAtBothBoundaries ==
  \A row \in CostRows :
    /\ row.area = 60 * AreaScale =>
         moveCostMiddle(row.area) = moveCostLow(row.area) /\ row.moveCost = moveCostLow(row.area)
    /\ row.area = 80 * AreaScale =>
         moveCostMiddle(row.area) = moveCostHigh(row.area) /\ row.moveCost = moveCostHigh(row.area)

\* C1 (amended): moveCost is continuous at area 60 (middle tier = low tier =
\* 7,920,000); at area 80 the middle-tier formula gives round(80 * 124000) =
\* 9,920,000, which is 80,000 more than the high-tier value 9,840,000 that is
\* shown, so moveCost drops at 80.
C1_ContinuousAt60JumpAt80 ==
  \A row \in CostRows :
    /\ row.area = 60 * AreaScale =>
         /\ moveCostMiddle(row.area) = moveCostLow(row.area)
         /\ row.moveCost = 7920000
    /\ row.area = 80 * AreaScale =>
         /\ row.moveCost = moveCostHigh(row.area) /\ row.moveCost = 9840000
         /\ moveCostMiddle(row.area) = row.moveCost + 80000

C1_Witness == \E row \in CostRows : row.area = 80 * AreaScale /\ row.site = "tab-list"

\* ---------------------------------------------------------------------------
\* C2: the quality coefficient used in the target-price computation is 1
\* whenever the stored coef_total is 0, missing or non-finite, at every
\* valuation call site (historical list, sample list, detail page,
\* per-complex list, stock list, stock edit).  For the per-complex list
\* "missing" is read with the two parts missing as well, and for the stock
\* edit page the stored coefficient is the one of the loaded stock row.
C2_CoefficientDefaultsToOne ==
  /\ page = "tab-list" /\ Unset(dbEntry.coef_total) => view.item.coefTotal = 1 * CoefScale
  /\ page = "sample-list" /\ Unset(dbEntry.coef_total) => view.item.coefTotal = 1 * CoefScale
  /\ page = "detail" /\ Unset(dbEntry.coef_total) => view.computed.coefTotal = 1 * CoefScale
  /\ page = "complex-list" /\ Unset(dbEntry.coef_total)
       /\ dbEntry.interior_level_coef = Null /\ dbEntry.contract_year_coef = Null
       => view.card.summary.coefTotal = 1 * CoefScale
  /\ page = "stock-list" /\ Unset(dbStock.coef_total) => view.card.coef = 1 * CoefScale
  /\ page = "stock-edit" /\ "stock" \in editDone /\ Unset(dbStock.coef_total)
       => view.baseCoef = 1 * CoefScale

\* ---------------------------------------------------------------------------
\* C3: in the stock list, at each of the four stages (target unit price,
\* target total price, raise amount, buy-target price) a stored finite
\* non-zero value is displayed as it is, whatever the other inputs; otherwise
\* the displayed value is the one recomputed from the upstream displayed
\* values.
C3_StoredValueFirst ==
  page = "stock-list" =>
    LET c == view.card
        r == dbStock
    IN /\ c.targetUnit = IF Unset(r.target_unit_price)
                         THEN RoundMulDiv(c.baseUnit, c.coef * c.floorCoef, CoefScale * CoefScale)
                         ELSE r.target_unit_price.v
       /\ c.targetPrice = IF Unset(r.target_close_price)
                          THEN RoundMulDiv(c.targetUnit, c.area, AreaScale)
                          ELSE r.target_close_price.v
       /\ c.raise = IF Unset(r.raise_price)
                    THEN 10000 * FloorMulDiv(c.targetPrice, 1, 12100)
                    ELSE r.raise_price.v
       /\ c.buyTarget = IF Unset(r.buy_target_price)
                        THEN c.raise - c.moveCost - c.brokerage - c.other
                        ELSE r.buy_target_price.v

\* a stored raise is shown while the target total upstream and the buy-target
\* downstream are recomputed
C3_Witness ==
  /\ page = "stock-list"
  /\ ~Unset(dbStock.raise_price) /\ dbStock.target_close_price = Num(0)
  /\ dbStock.buy_target_price = NaN /\ ~Unset(dbStock.target_unit_price)
  /\ view.card.raise = dbStock.raise_price.v
  /\ view.card.targetPrice # 0
  /\ view.card.raise # 10000 * FloorMulDiv(view.card.targetPrice, 1, 12100)

\* ---------------------------------------------------------------------------
\* C4: at every call site that has no stored override the target total price
\* is round(targetUnitPrice * area), targetUnitPrice being the already rounded
\* round(comparableUnitPrice * qualityCoefficient * floorMultiplier); hence,
\* for the same MAX record and a floor multiplier of 1.00, the historical
\* list, the detail page and floor 1 of the per-complex list show the same
\* target total price and the same raise amount.
TwoStepTarget(unit, coef, floorCoef, area) ==
  RoundMulDiv(RoundMulDiv(unit, coef * floorCoef, CoefScale * CoefScale), area, AreaScale)

C4_TargetTotalFromRoundedUnit ==
  LET floor1 == complexCard(dbEntry, dbPattern).floors[1]
      sameAsFloor1(targetClose, raise) ==
        dbEntry.contract_kind = "MAX" /\ floor1.floorCoef = 1 * CoefScale
          => targetClose = floor1.targetClose /\ raise = floor1.raise
  IN /\ page \in {"tab-list", "sample-list"} =>
          /\ view.item.targetClose =
               TwoStepTarget(view.item.unitPrice, view.item.coefTotal, 1 * CoefScale, view.item.area)
          /\ sameAsFloor1(view.item.targetClose, view.item.raise)
     /\ page = "detail" =>
          /\ view.computed.targetClose =
               TwoStepTarget(view.computed.unitPrice, view.computed.coefTotal, 1 * CoefScale, view.computed.area)
          /\ sameAsFloor1(view.computed.targetClose, view.computed.raise)
     /\ page = "complex-list" =>
          \A i \in DOMAIN view.card.floors :
            view.card.floors[i].targetClose =
              TwoStepTarget(view.card.summary.unit, view.card.summary.coefTotal,
                            view.card.floors[i].floorCoef, view.card.summary.area)
     /\ page = "stock-list" /\ NoOverrides(dbStock) =>
          view.card.targetPrice =
            TwoStepTarget(view.card.baseUnit, view.card.coef, view.card.floorCoef, view.card.area)
     /\ page = "stock-edit" =>
          \A i \in DOMAIN view.floors :
            view.floors[i].targetClose =
              TwoStepTarget(view.baseUnit, view.baseCoef, view.floors[i].floorCoef, view.areaNum)

\* ---------------------------------------------------------------------------
\* C5: the unit price is 0 for every area <= 0 and for a null or non-finite
\* area (coerced to 0), and round(totalPrice / area) otherwise; no division by
\* zero is performed and the buy-target computation downstream completes with
\* raise - moveCost - brokerageFee - otherCost.
StoredOrZero(x) == IF IsFiniteNumber(x) THEN x.v ELSE 0
ExpectedUnit(price, area) ==
  IF ~IsFiniteNumber(area) THEN 0
  ELSE IF area.v <= 0 THEN 0
  ELSE RoundMulDiv(StoredOrZero(price), AreaScale, area.v)

ZeroAreaCosts(row) ==
  /\ row.targetTotal = 0 /\ row.raise = 0 /\ row.moveCost = 0
  /\ row.brokerage = 550000 /\ row.other = 0 /\ row.buyTarget = -550000

ZeroAreaRecord ==
  CASE page \in {"tab-list", "sample-list", "detail", "complex-list"} -> dbEntry.area_sqm = Num(0)
    [] page = "stock-list" -> dbStock.area_sqm = Num(0) /\ NoOverrides(dbStock)
    [] page = "stock-edit" -> "stock" \in editDone /\ dbStock.area_sqm = Num(0)
    [] OTHER -> FALSE

C6_ZeroAreaAllZero ==
  ZeroAreaRecord =>
    /\ \A row \in CostRows : ZeroAreaCosts(row)
    /\ page \in {"tab-list", "sample-list"} => view.item.unitPrice = 0
    /\ page = "detail" => view.computed.unitPrice = 0
    /\ page = "complex-list" =>
         view.card.summary.unit = 0 /\ \A i \in DOMAIN view.card.floors : view.card.floors[i].targetUnit = 0
    /\ page = "stock-list" => view.card.baseUnit = 0 /\ view.card.targetUnit = 0
    /\ page = "stock-edit" =>
         view.baseUnit = 0 /\ \A i \in DOMAIN view.floors : view.floors[i].targetUnit = 0

\* C6 (amended): for a record with area 0 and no stored overrides,
\* targetTotalPrice, raiseAmount, moveCost and otherCost are 0, brokerageFee is
\* 550,000 and buyTargetPrice is -550,000 (unclamped) at every call site;
\* comparableUnitPrice and targetUnitPrice are 0 where the unit price is
\* derived from the record's own price and area (historical list, sample
\* list, detail page, per-complex list), while the stock list and the stock
\* edit page take the comparable unit price from the stored base unit price,
\* so that their targetUnitPrice is round(base * coefficient * floor
\* multiplier), whatever the area.
C6_ZeroAreaBuyTarget ==
  ZeroAreaRecord =>
    /\ \A row \in CostRows : ZeroAreaCosts(row)
    /\ page \in {"tab-list", "sample-list"} => view.item.unitPrice = 0
    /\ page = "detail" => view.computed.unitPrice = 0
    /\ page = "complex-list" =>
         view.card.summary.unit = 0 /\ \A i \in DOMAIN view.card.floors : view.card.floors[i].targetUnit = 0
    /\ page = "stock-list" =>
         view.card.targetUnit =
           RoundMulDiv(StoredOrZero(dbStock.base_unit_price), view.card.coef * view.card.floorCoef,
                       CoefScale * CoefScale)
    /\ page = "stock-edit" =>
         \A i \in DOMAIN view.floors :
           view.floors[i].targetUnit =
             RoundMulDiv(view.baseUnit, view.baseCoef * view.floors[i].floorCoef, CoefScale * CoefScale)

C6_Witness ==
  /\ page = "stock-list" /\ dbStock.area_sqm = Num(0) /\ NoOverrides(dbStock)
  /\ view.card.targetUnit > 0 /\ view.card.targetPrice = 0 /\ view.card.buyTarget = -550000

\* ---------------------------------------------------------------------------
\* C7: floorToTenThousand is idempotent and its result is a multiple of 10,000
\* that is <= x; so every recomputed raise amount r satisfies
\* r <= targetTotalPrice / 1.21 < r + 10000 (stated as
\* 1.21 * r <= targetTotalPrice < 1.21 * (r + 10000), r being a multiple of 100).
C7_FloorToTenThousand ==
  \A row \in CostRows :
    row.raiseComputed =>
      /\ row.raise % 10000 = 0
      /\ floorToTenThousand(row.raise, 1, 1) = row.raise
      /\ (row.raise \div 100) * 121 <= row.targetTotal
      /\ row.targetTotal < ((row.raise + 10000) \div 100) * 121

\* a target total that is not on a 12,100 boundary
C7_Witness ==
  \E row \in CostRows :
    /\ row.raiseComputed /\ row.targetTotal = 20790025 /\ row.raise = 17180000

\* ---------------------------------------------------------------------------
\* C8: floorToTenThousand truncates toward zero in units of 10,000 for every
\* x, negative x included: the recomputed raise is the multiple of 10,000
\* nearest to targetTotalPrice / 1.21 in the direction of zero.
TruncTowardZero(t) ==
  IF t >= 0 THEN 10000 * FloorMulDiv(t, 1, 12100) ELSE -(10000 * FloorMulDiv(-t, 1, 12100))

C8_TruncatesTowardZero ==
  \A row \in CostRows : row.raiseComputed => row.raise = TruncTowardZero(row.targetTotal)

\* ---------------------------------------------------------------------------
\* C9: brokerageFee is exactly 550,000 for every raise amount below 10,000,000
\* (0 and negative amounts included), never 5.5% of it; from 10,000,000 on it
\* is round(raise * 0.055), the integer b with
\* -500 <= 1000 * b - 55 * raise - 500 < 500 shifted: 55r - 500 < 1000b <= 55r + 500.
C9_BrokerageFloor ==
  \A row \in CostRows :
    /\ row.raise < 10000000 => row.brokerage = 550000
    /\ row.raise >= 10000000 =>
         /\ 55 * row.raise - 500 < 1000 * row.brokerage
         /\ 1000 * row.brokerage <= 55 * row.raise + 500

C9_Witness ==
  \E row \in CostRows :
    /\ row.raise = 9000000 /\ row.brokerage = 550000 /\ row.brokerage # 495000

\* ---------------------------------------------------------------------------
\* C10: gapNarrow is the symmetric test |historicalMin - buyTarget| <= 300,000
\* at every call site that computes opportunity flags (historical list and
\* sample list): true when the two are equal, and the same whether the
\* buy-target is above or below the historical minimum by the same amount.
MirrorItem(p) == [p EXCEPT !.pastMin = 2 * p.buyTarget - p.pastMin]

C10_GapNarrowSymmetric ==
  /\ page = "tab-list" =>
       /\ view.judge.near = (Abs(view.item.pastMin - view.item.buyTarget) <= 300000)
       /\ view.item.pastMin = view.item.buyTarget => view.judge.near
       /\ view.judge.near = judge(MirrorItem(view.item)).near
  /\ page = "sample-list" =>
       /\ view.judge.near = (Abs(view.item.pastMin - view.item.buyTarget) <= 300000)
       /\ view.item.pastMin = view.item.buyTarget => view.judge.near
       /\ view.judge.near = sampleJudge(MirrorItem(view.item)).near

\* the buy-target is 200,000 above the historical minimum
C10_Witness ==
  /\ page = "tab-list"
  /\ view.item.buyTarget = 6155729 /\ view.item.pastMin = 5955729
  /\ view.judge.diff = -200000 /\ view.judge.near

\* ---------------------------------------------------------------------------
\* C11: for every listing, focus is true if and only if gapNarrow and
\* turnoverFast are both true (so focus implies each of them), and
\* coefficientHigh has no influence on focus: the same listing judged with any
\* other coefficient has the same focus flag.  Scenario 4: historical minimum
\* 5,000,000, buy-target 4,800,000 and 20 elapsed days give gapNarrow,
\* turnoverFast and focus.
WithCoef(p, c) == [p EXCEPT !.coefTotal = c]
ScenarioFourItem ==
  [pastMin |-> 5000000, buyTarget |-> 4800000, pastMiniDays |-> 20,
   targetClose |-> 0, pastMax |-> 0, coefTotal |-> 1 * CoefScale]

C11_FocusIsConjunction ==
  /\ page = "tab-list" =>
       /\ view.judge.focus = (view.judge.near /\ view.judge.fast)
       /\ \A c \in {0, 100, 104, 105, 110} : judge(WithCoef(view.item, c)).focus = view.judge.focus
       /\ judge(ScenarioFourItem).near /\ judge(ScenarioFourItem).fast /\ judge(ScenarioFourItem).focus
  /\ page = "sample-list" =>
       /\ view.judge.focus = (view.judge.near /\ view.judge.fast)
       /\ \A c \in {0, 100, 104, 105, 110} : sampleJudge(WithCoef(view.item, c)).focus = view.judge.focus
       /\ sampleJudge(ScenarioFourItem).focus

\* a focused listing 200,000 below the historical minimum, sold in 20 days
C11_Witness ==
  /\ page = "tab-list"
  /\ view.judge.diff = 200000 /\ view.item.pastMiniDays = 20
  /\ view.judge.near /\ view.judge.fast /\ view.judge.focus

\* ---------------------------------------------------------------------------
\* C12: turnoverFast is true exactly when 0 < elapsedDays <= 30; a record
\* whose registered date or contract date is missing or unparseable has
\* elapsedDays = 0 and is never flagged turnoverFast or focus.
MissingDate(r) == r.reins_registered_date.type # "date" \/ r.contract_date.type # "date"

C12_TurnoverFast ==
  /\ page \in {"tab-list", "sample-list"} =>
       /\ view.judge.fast = (0 < view.item.pastMiniDays /\ view.item.pastMiniDays <= 30)
       /\ MissingDate(dbEntry) =>
            view.item.pastMiniDays = 0 /\ ~view.judge.fast /\ ~view.judge.focus
  /\ page = "complex-list" /\ MissingDate(dbEntry) => view.card.summary.days = 0

\* an unparseable registered date next to a contract date, the gap being narrow
C12_Witness ==
  /\ page = "tab-list"
  /\ dbEntry.reins_registered_date = BadDate /\ dbEntry.contract_date = Day(20)
  /\ view.item.pastMiniDays = 0 /\ view.judge.near /\ ~view.judge.fast /\ ~view.judge.focus

\* ---------------------------------------------------------------------------
\* C13: elapsedDays is the difference in whole days between the registered
\* date and the contract date when both are present, and the difference
\* between the registered date and the current time when the record has a
\* registered date but no contract date (historical list, sample list,
\* per-complex list, stock list).
ElapsedAsStated(reg, contract, days) ==
  /\ reg.type = "date" /\ contract.type = "date" => days = Abs(reg.day - contract.day)
  /\ reg.type = "date" /\ contract.type = "null" =>
       \E now \in NowValues : days = Abs(now.day - reg.day)

C13_ElapsedDays ==
  /\ page \in {"tab-list", "sample-list"} =>
       ElapsedAsStated(dbEntry.reins_registered_date, dbEntry.contract_date, view.item.pastMiniDays)
  /\ page = "complex-list" =>
       ElapsedAsStated(dbEntry.reins_registered_date, dbEntry.contract_date, view.card.summary.days)
  /\ page = "stock-list" =>
       ElapsedAsStated(dbStock.registered_date, dbStock.contract_date, view.card.days)

\* ---------------------------------------------------------------------------
\* C14: for every pattern name that is not one of the four fixed patterns
\* (the empty name, which is also what a null pattern becomes, included) the
\* floor table is the all-1.0 sequence of length 5; the per-floor valuation
\* table (per-complex list, stock edit page) always has exactly five rows
\* numbered 1..5, and the multiplier of each row is the entry of the pattern
\* at index floor - 1.
ExpectedFloorCoef(pattern, floor) ==
  IF pattern \in PatternNames THEN floorCoefs[pattern][floor] ELSE 1 * CoefScale

FiveRows(floors, pattern) ==
  /\ DOMAIN floors = 1..5
  /\ \A i \in 1..5 : floors[i].floor = i /\ floors[i].floorCoef = ExpectedFloorCoef(pattern, i)
  /\ pattern \notin PatternNames => \A i \in 1..5 : floors[i].floorCoef = 100

FloorHasNoRow(x) == ~IsFiniteNumber(x) \/ x.v \notin 1..5
FloorUsed(x) == IF FloorHasNoRow(x) THEN 1 ELSE x.v

C15_FirstEntryFallback ==
  /\ [](page = "regist-edit" /\ "entry" \in editDone /\ dbEntry.contract_kind = "MAX" =>
          view.maxFloorCoef = ExpectedFloorCoef(registPattern(editDone), FloorUsed(dbEntry.floor)))
  /\ [](page = "stock-edit" =>
          LET stored == IF "stock" \in editDone THEN dbStock.floor ELSE Null
          IN /\ view.selectedFloorRow = view.floors[FloorUsed(stored)]
             /\ view.selectedFloorRow.floorCoef = ExpectedFloorCoef(editPattern(editDone), FloorUsed(stored)))
  /\ [][page = "stock-edit" /\ page' = "none" =>
          LET row == view.floors[FloorUsed(dbStock'.floor)]
          IN /\ dbStock'.floor_coef = Num(row.floorCoef)
             /\ dbStock'.target_unit_price = Num(row.targetUnit)
             /\ dbStock'.target_close_price = Num(row.targetClose)
             /\ dbStock'.list_price = Num(row.targetClose)
             /\ dbStock'.raise_price = Num(row.raise)
             /\ dbStock'.buy_target_price = Num(row.buyTarget)]_vars

\* a stock on floor 6 of a complex with the fourth pattern has been saved with
\* the multiplier 0.98 of floor 1 (not 1.07 of floor 5)
C15_Witness ==
  /\ page = "none" /\ dbPattern = "max-aggressive"
  /\ dbStock.floor = Num(6) /\ dbStock.floor_coef = Num(98)
  /\ dbStock.target_unit_price = Num(298218)

\* ---------------------------------------------------------------------------
\* C16: when a record carries both an explicit coef_total and the two parts
\* (interior-level and contract-recency coefficients), the explicit
\* coef_total is the quality coefficient used, also when it differs from the
\* sum of the parts; the sum of the parts is used only when coef_total is
\* absent (historical list, sample list, detail page, per-complex list, and
\* the MAX-entry edit page once its coefTotal sync effect has run).
ExplicitCoef(r) == IsFiniteNumber(r.coef_total) /\ r.coef_total.v # 0
PartsSum(r) == StoredOrZero(r.interior_level_coef) + StoredOrZero(r.contract_year_coef)

C16_ExplicitCoefPreferred ==
  /\ page \in {"tab-list", "sample-list"} /\ ExplicitCoef(dbEntry) =>
       view.item.coefTotal = dbEntry.coef_total.v
  /\ page = "detail" /\ ExplicitCoef(dbEntry) => view.computed.coefTotal = dbEntry.coef_total.v
  /\ page = "complex-list" =>
       /\ ExplicitCoef(dbEntry) => view.card.summary.coefTotal = dbEntry.coef_total.v
       /\ view.card.summary.coefTotal = PartsSum(dbEntry) /\ PartsSum(dbEntry) # 100 =>
            dbEntry.coef_total = Null \/ dbEntry.coef_total.v = PartsSum(dbEntry)
  /\ page = "regist-edit" /\ "entry" \in editDone /\ dbEntry.contract_kind = "MAX"
       /\ newCoefOf(maxForm) = maxForm.coefTotal /\ ExplicitCoef(dbEntry) =>
       view.coefTotal = dbEntry.coef_total.v

\* ---------------------------------------------------------------------------
\* C17 (as stated): every derived field shown for a record depends solely on
\* the fields of that record: evaluating the same stored record again, at any
\* time, gives the values that are shown, the elapsed-days figure included.
SameAsReevaluated ==
  /\ page = "tab-list" => view.item = TabListItem(dbEntry) /\ view.judge = judge(TabListItem(dbEntry))
  /\ page = "sample-list" =>
       view.item = SampleListItem(dbEntry) /\ view.judge = sampleJudge(SampleListItem(dbEntry))
  /\ page = "detail" => view.computed = DetailComputed(dbEntry)
  /\ page = "complex-list" => view.card = complexCard(dbEntry, dbPattern)

WithoutDays(card) == [card EXCEPT !.days = 0]

Finite0(x) == IF IsFiniteNumber(x) THEN x ELSE Num(0)
Finite1(x) == IF IsFiniteNumber(x) THEN x ELSE Num(1 * CoefScale)
NotFiniteTo1(x) == IF x.type = "number" /\ ~x.finite THEN Num(1 * CoefScale) ELSE x

CoercedEntry(r) ==
  [r EXCEPT !.area_sqm = Finite0(@), !.max_price = Finite0(@), !.past_min = Finite0(@),
            !.coef_total = Finite1(@), !.interior_level_coef = Finite0(@),
            !.contract_year_coef = Finite0(@)]
CoercedComplexEntry(r) ==
  [r EXCEPT !.area_sqm = Finite0(@), !.max_price = Finite0(@), !.past_min = Finite0(@),
            !.coef_total = NotFiniteTo1(@), !.interior_level_coef = Finite0(@),
            !.contract_year_coef = Finite0(@)]
CoercedStock(r) ==
  [r EXCEPT !.area_sqm = Finite0(@), !.list_price = Finite0(@), !.base_unit_price = Finite0(@),
            !.coef_total = Finite1(@), !.floor_coef = Finite1(@),
            !.target_unit_price = Finite0(@), !.target_close_price = Finite0(@),
            !.raise_price = Finite0(@), !.buy_target_price = Finite0(@)]

ScenarioOne ==
  /\ page = "complex-list" /\ dbEntry.contract_kind = "MAX"
  /\ dbEntry.area_sqm = Num(6832) /\ dbEntry.max_price = Num(19800000)
  /\ view.card.summary.coefTotal = 105

ScenarioOneRows == {i \in DOMAIN view.card.floors : view.card.floors[i].floorCoef = 1 * CoefScale}

C19_ScenarioOneAsStated ==
  ScenarioOne =>
    /\ view.card.summary.unit = 289871
    /\ \A i \in ScenarioOneRows :
         LET row == view.card.floors[i]
         IN /\ row.targetUnit = 304365 /\ row.raise = 17180000
            /\ row.moveCost = 8788766 /\ row.brokerage = 944900 /\ row.other = 1288500
            /\ row.buyTarget = 6157834

\* C19 (amended): the same inputs give comparableUnitPrice 289,813
\* (19,800,000 / 68.32 = 289,812.6), targetUnitPrice 304,304, targetTotalPrice
\* 20,790,049, raiseAmount 17,180,000, moveCost 8,790,871 (68.32 * 128,672 =
\* 8,790,871.04, middle tier), brokerageFee 944,900, otherCost 1,288,500 and
\* buyTargetPrice 6,155,729.
C19_ScenarioOne ==
  ScenarioOne =>
    /\ view.card.summary.unit = 289813
    /\ \A i \in ScenarioOneRows :
         LET row == view.card.floors[i]
         IN /\ row.targetUnit = 304304 /\ row.targetClose = 20790049 /\ row.raise = 17180000
            /\ row.moveCost = 8790871 /\ row.brokerage = 944900 /\ row.other = 1288500
            /\ row.buyTarget = 6155729

C19_Witness ==
  /\ ScenarioOne /\ dbPattern = "conservative" /\ dbEntry.coef_total = Num(105)
  /\ ScenarioOneRows = {1}
  /\ view.card.floors[1].buyTarget = 6155729

\* ---------------------------------------------------------------------------
\* C20: given the same raise amount and the same area, every valuation call
\* site (historical list, sample list, detail page, per-complex list, stock
\* list without stored buy-target, stock edit) shows the same moveCost,
\* brokerageFee and otherCost and the same buyTargetPrice = raise - moveCost -
\* brokerageFee - otherCost; moveCost depends on the area only, brokerageFee
\* and otherCost on the raise amount only, and none on another deduction.
C20_SameDeductionsEverywhere ==
  \A row \in CostRows :
    /\ row.moveCost = moveCost(row.area)
    /\ row.brokerage = brokerageFee(row.raise)
    /\ row.other = otherCost(row.raise)
    /\ row.buyComputed => row.buyTarget = row.raise - row.moveCost - row.brokerage - row.other
    /\ row.raise = 17180000 /\ row.area = 6832 =>
         /\ row.moveCost = 8790871 /\ row.brokerage = 944900 /\ row.other = 1288500
         /\ row.buyComputed => row.buyTarget = 6155729

\* the stock edit page shows the deductions of the historical list for the
\* same raise amount and area
C20_Witness ==
  /\ page = "stock-edit"
  /\ \E row \in CostRows :
       /\ row.raise = 17180000 /\ row.area = 6832
       /\ row.buyTarget = TabListItem(DefaultEntry).buyTarget
       /\ row.moveCost = TabListItem(DefaultEntry).moveCost

\* ---------------------------------------------------------------------------
\* Raise sweep: entries of 100.00 square metres with coefficient 1.00 whose
\* MAX price is 12,100 * k + 100, so that the raise amount of the row with
\* floor multiplier 1.00 is 10,000 * k, for k around the brokerage threshold.
RaiseSweepLow == 940
RaiseSweepHigh == 1100
RaiseSweepEntries ==
  {EntryRow("MAX", Num(100 * AreaScale), Num(12100 * k + 100), Null, Num(1 * CoefScale), Null, Null, NoDate, NoDate) :
     k \in RaiseSweepLow..RaiseSweepHigh}

InitRaise ==
  /\ dbEntry \in RaiseSweepEntries /\ dbStock = DefaultStock /\ dbPattern \in {"", "max-aggressive"}
  /\ page = "none"
  /\ view = NoView
  /\ form = initialForm
  /\ maxForm = initialMax
  /\ editDone = {}
  /\ OthersIdle

NextRaise ==
  \/ TabListRun
  \/ ComplexListLoadEntries

SpecRaise == InitRaise /\ [][NextRaise]_vars

\* the same entry with the MAX price one sweep step higher
RaiseStepUp(r) == [r EXCEPT !.max_price = Num(r.max_price.v + 12100)]

\* low and high are rows of the same area, high of the higher-priced entry
RaiseOrdered(low, high) ==
  /\ high.raise >= low.raise
  /\ high.brokerage >= low.brokerage
  /\ high.raise = low.raise + 10000 => high.brokerage - low.brokerage <= 550
  /\ high.raise > low.raise => high.buyTarget > low.buyTarget

\* C21: brokerageFee is at least 550,000 for every raise amount, is
\* non-decreasing over raise amounts that are multiples of 10,000, does not
\* jump at the 10,000,000 threshold (it is 550,000 at exactly 10,000,000 and
\* grows by at most 550 per 10,000 of raise), and the buy-target price is
\* strictly increasing in the raise amount for a fixed area.
C21_BrokerageMonotone ==
  /\ \A row \in CostRows :
       /\ row.brokerage >= 550000
       /\ row.raise % 10000 = 0
       /\ row.raise = 10000000 => row.brokerage = 550000
  /\ page = "tab-list" => RaiseOrdered(view.item, TabListItem(RaiseStepUp(dbEntry)))
  /\ page = "complex-list" =>
       \A i \in DOMAIN view.card.floors :
         RaiseOrdered(view.card.floors[i], complexCard(RaiseStepUp(dbEntry), dbPattern).floors[i])

\* the historical list shows a raise of exactly 10,000,000 and the next step
\* of the sweep has a higher fee
C21_Witness ==
  /\ page = "tab-list" /\ view.item.raise = 10000000 /\ view.item.brokerage = 550000
  /\ TabListItem(RaiseStepUp(dbEntry)).raise = 10010000
  /\ TabListItem(RaiseStepUp(dbEntry)).brokerage = 550550

\* ---------------------------------------------------------------------------
\* the stored row without its four stored derived values: what the stock list
\* recomputes from base_unit_price, coef_total, floor_coef and area
DerivedCleared(r) ==
  [r EXCEPT !.target_unit_price = Null, !.target_close_price = Null,
            !.raise_price = Null, !.buy_target_price = Null]

SameDerived(card, row) ==
  /\ card.targetUnit = row.targetUnit
  /\ card.targetPrice = row.targetClose
  /\ card.raise = row.raise
  /\ card.buyTarget = row.buyTarget

\* C22: a stock saved through the stock edit page is shown by the stock list
\* with exactly the derived values the edit page computed for the persisted
\* floor row: the list's recomputation of target unit price, target total
\* price, raise amount and buy-target price from the persisted
\* base_unit_price, coef_total, floor_coef and area equals the persisted
\* target_unit_price, target_close_price, raise_price and buy_target_price,
\* and so does the card the list shows (stored value first), also when a
\* persisted value is 0.
C22_SavedStockShownAsComputed ==
  [][page = "stock-edit" /\ page' = "none" =>
       \A now \in NowValues :
         LET row == view.selectedFloorRow
         IN /\ dbStock'.target_unit_price = Num(row.targetUnit)
            /\ dbStock'.target_close_price = Num(row.targetClose)
            /\ dbStock'.raise_price = Num(row.raise)
            /\ dbStock'.buy_target_price = Num(row.buyTarget)
            /\ SameDerived(stockCard(DerivedCleared(dbStock'), now), row)
            /\ SameDerived(stockCard(dbStock', now), row)]_vars

\* the stock list shows a stock saved from the default MAX entry on a floor
\* with multiplier 0.98, and one saved with a target unit price of 0
SavedFloorOne ==
  /\ dbStock.floor_coef = Num(98) /\ dbStock.target_unit_price = Num(298218)
  /\ view.card.targetUnit = 298218
SavedZero ==
  /\ dbStock.floor_coef = Num(1 * CoefScale) /\ dbStock.base_unit_price = Null
  /\ dbStock.target_unit_price = Num(0) /\ dbStock.raise_price = Num(0)
  /\ dbStock.buy_target_price = Num(view.card.buyTarget) /\ view.card.buyTarget < 0
  /\ view.card.targetUnit = 0

C22_Witness ==
  /\ page = "stock-list"
  /\ SavedFloorOne \/ SavedZero

\* ---------------------------------------------------------------------------
\* the requests of the stock list whose response would still be applied
LiveLoads == {l \in stockList.loads : l.mounted}
StockListSettled == stockList.mounted /\ LiveLoads = {} /\ ~stockList.deletingId

\* C23: in the stock list, after the user picks complex Y in the complex
\* dropdown, once the triggered reload of complexes and stocks has settled
\* the selected complex is Y and (unless the stock load failed) the cards
\* shown are Y's stocks, whatever the complexId query parameter is.
C23_PickedComplexStays ==
  StockListSettled /\ stockList.picked # "" =>
    /\ stockList.selectedComplexId = stockList.picked
    /\ stockList.msg = "" => stockList.cards = stockList.picked

\* ---------------------------------------------------------------------------
\* a step in which the response of a superseded stock load arrives
StaleStocksResponse ==
  \E l \in stockList.loads :
    /\ l.kind = "stocks" /\ ~l.mounted
    /\ stockList'.loads = stockList.loads \ {l}
\* a step in which the response of the stock load of the current pair arrives
CurrentStocksResponse ==
  \E l \in stockList.loads :
    /\ l.kind = "stocks" /\ l.mounted
    /\ l.complex = stockList.selectedComplexId /\ l.key = stockList.reloadKey
    /\ stockList'.loads = stockList.loads \ {l}

C25_RenderedOnlyWhileSignedIn ==
  /\ ~auth.ready => ~rendersChildren(auth)
  /\ rendersChildren(auth) => auth.observed \in Users
  /\ auth.mounted /\ auth.observed = "" => auth.redirect /\ ~rendersChildren(auth)

\* ---------------------------------------------------------------------------
\* C26: on the root page, whenever no user is signed in and every pending
\* list refresh has settled, the posts state is empty; a refreshList call
\* started while signed in that completes after the sign-out event does not
\* leave the previous user's posts in state.
C26_NoPostsWhenSignedOut ==
  root.mounted /\ session = "" /\ root.userEmail = "" /\ ~root.getSession /\ root.refreshes = {} =>
    root.posts = ""

\* ---------------------------------------------------------------------------
\* the list is ordered by the sort key in the sort direction
OrderedBySortKey(arr, key, asc) ==
  \A i, j \in DOMAIN arr :
    i < j => IF asc THEN arr[i][key] <= arr[j][key] ELSE arr[i][key] >= arr[j][key]
\* the ids of the items that pass the area filter
MatchingIds(s) == {i \in DOMAIN s.items : s.fArea = 0 \/ s.items[i].area >= s.fArea}

\* C27: in the historical list, after any sequence of filter changes,
\* page-size changes, sort clicks and previous/next clicks,
\* 1 <= currentPage <= totalPages, the displayed items are exactly the
\* sorted-and-filtered items at indices (currentPage-1)*pageSize ..
\* min(len, currentPage*pageSize)-1 (at most pageSize of them, and not empty
\* when an item matches), and every filter change, page-size change and sort
\* click returns the view to page 1.
C27_PaginationInRange ==
  /\ [](LET s == tabList
            sorted == cardSorted(s)
            first == (currentPage(s) - 1) * s.pageSize
            last == Min(Len(sorted), currentPage(s) * s.pageSize) - 1
        IN /\ 1 <= currentPage(s) /\ currentPage(s) <= totalPages(s)
           /\ {sorted[i].id : i \in DOMAIN sorted} = MatchingIds(s)
           /\ Len(sorted) = Cardinality(MatchingIds(s))
           /\ OrderedBySortKey(sorted, s.cardSortKey, s.cardSortAsc)
           /\ Len(pageItems(s)) = last - first + 1
           /\ \A k \in first..last : pageItems(s)[k - first + 1] = sorted[k + 1]
           /\ Len(pageItems(s)) <= s.pageSize
           /\ MatchingIds(s) # {} => pageItems(s) # <<>>
           /\ ~s.resetPending => s.page = currentPage(s))
  /\ [][/\ (tabList'.fArea # tabList.fArea \/ tabList'.pageSize # tabList.pageSize)
             => tabList'.resetPending
        /\ tabList.resetPending /\ ~tabList'.resetPending => currentPage(tabList') = 1
        /\ (tabList'.cardSortKey # tabList.cardSortKey \/ tabList'.cardSortAsc # tabList.cardSortAsc)
             => currentPage(tabList') = 1]_vars

\* the third page of 45 items has been left by a filter change that keeps 20
\* items: the page state is still 3 while the effect is pending
C27_Witness ==
  /\ tabList.page = 3 /\ tabList.pageSize = 20 /\ tabList.resetPending
  /\ Len(cardSorted(tabList)) = 20 /\ currentPage(tabList) = 1 /\ Len(pageItems(tabList)) = 20

\* ---------------------------------------------------------------------------
\* a step in which the submit handler finishes without having updated
SubmitFailed ==
  stockEdit.pc # "idle" /\ stockEdit'.pc = "idle" /\ stockEdit'.msg # "updated"
\* a step that writes: the PDF upload or the update of estate_stocks
SubmitWrites ==
  \/ ~stockEdit.uploaded /\ stockEdit'.uploaded
  \/ dbStock' # dbStock
  \/ stockEdit'.msg = "updated" /\ stockEdit.msg # "updated"

\* C28: stock edit submit writes to the database (PDF upload or estate_stocks
\* update) only if a user is signed in, a complex and a MAX entry are
\* selected and the entered area is a number > 0; on every validation
\* failure or error nothing is updated in estate_stocks and no navigation
\* happens; and on every path the saving flag is false once the submit has
\* finished.
C28_SubmitGuarded ==
  /\ [](stockEdit.pc = "idle" => ~stockEdit.saving)
  /\ [](stockEdit.pc \in {"upload", "update"} =>
          /\ stockEdit.saving /\ stockEdit.stockId /\ stockEdit.user
          /\ stockEdit.closure.complex /\ stockEdit.closure.entry
          /\ IsFiniteNumber(stockEdit.closure.area) /\ stockEdit.closure.area.v > 0)
  /\ [][SubmitWrites => stockEdit.pc \in {"upload", "update"}]_vars
  /\ [][SubmitFailed => dbStock' = dbStock /\ page' = page /\ ~stockEdit'.navigated]_vars
  /\ [][page' # page /\ page = "stock-edit" => dbStock' = stockEdit.closure.payload]_vars

\* the submit has finished with the area validation message: a complex and an
\* entry were selected, the area is not positive, nothing was written
C28_Witness ==
  /\ page = "stock-edit" /\ stockEdit.pc = "idle" /\ stockEdit.msg = "enter-area"
  /\ stockEdit.user /\ stockEdit.closure.complex /\ stockEdit.closure.entry
  /\ stockEdit.closure.area = Num(-1000)
  /\ ~stockEdit.saving /\ ~stockEdit.uploaded /\ stockEdit.pdf

====
